---- MODULE Spec2Model ----
(***************************************************************************)
(* Model of the parse-it database package: the AST mapper, the helper      *)
(* constructors, the validation pipeline and the query builder.            *)
(*                                                                         *)
(* JavaScript values are tagged records so that values of different        *)
(* JavaScript types can be compared: a primitive carries the field ty, an  *)
(* IR node carries the field type (as in types.ts).  SQL text is a string, *)
(* built by concatenation exactly as the template literals build it.       *)
(***************************************************************************)
EXTENDS Integers, Sequences, FiniteSets, TLC

\* const name = value: the value is computed once and handed to what follows
Bind(value, F(_)) == F(value)

(***************************************************************************)
(* JavaScript values                                                       *)
(***************************************************************************)
Undef == [ty |-> "undefined"]
Null == [ty |-> "null"]
S(s) == [ty |-> "string", s |-> s]
N(n) == [ty |-> "number", n |-> n]
Arr(items) == [ty |-> "array", items |-> items]

IsPrim(v) == "ty" \in DOMAIN v
IsNode(v) == "type" \in DOMAIN v
IsString(v) == IsPrim(v) /\ v.ty = "string"
IsNumber(v) == IsPrim(v) /\ v.ty = "number"
IsArray(v) == IsPrim(v) /\ v.ty = "array"
NodeType(v) == IF IsNode(v) THEN v.type ELSE ""
\* JavaScript truthiness of a value
Truthy(v) ==
  IF IsNode(v) THEN TRUE
  ELSE CASE v.ty = "undefined" -> FALSE
         [] v.ty = "null" -> FALSE
         [] v.ty = "string" -> v.s # ""
         [] v.ty = "number" -> v.n # 0
         [] OTHER -> TRUE

RECURSIVE JoinStr(_, _)
\* Array.prototype.join on a sequence of strings
JoinStr(strs, sep) ==
  IF Len(strs) = 0 THEN ""
  ELSE IF Len(strs) = 1 THEN strs[1]
  ELSE strs[1] \o sep \o JoinStr(Tail(strs), sep)

RECURSIVE Str(_)
\* the string a template literal `${value}` produces
Str(v) ==
  IF IsNode(v) THEN "[object Object]" ELSE
  CASE v.ty = "string" -> v.s
    [] v.ty = "number" -> ToString(v.n)
    [] v.ty = "null" -> "null"
    [] v.ty = "undefined" -> "undefined"
    [] v.ty = "array" -> JoinStr([i \in 1..Len(v.items) |-> Str(v.items[i])], ",")

\* s contains sub as a substring
Contains(s, sub) ==
  \E i \in 1..(Len(s) - Len(sub) + 1) : SubSeq(s, i, i + Len(sub) - 1) = sub
\* the positions at which sub occurs in s
Occurrences(s, sub) ==
  {i \in 1..(Len(s) - Len(sub) + 1) : SubSeq(s, i, i + Len(sub) - 1) = sub}

(***************************************************************************)
(* IR nodes (types.ts)                                                     *)
(***************************************************************************)
NoOperator == ""
ExpressionNode(left, operator, right) ==
  [type |-> "expression", left |-> left, operator |-> operator, right |-> right]
Leaf(v) == ExpressionNode(v, NoOperator, Undef)
FilterNode(operator, conds) ==
  [type |-> "filter", operator |-> operator, conditions |-> conds]
TableNode(name, alias) == [type |-> "table", name |-> name, alias |-> alias]
SubQueryNode(query, alias) == [type |-> "subquery", query |-> query, alias |-> alias]
SelectNode(expression, alias) ==
  [type |-> "select", expression |-> expression, alias |-> alias]
JoinNode(joinType, table, on) ==
  [type |-> "join", joinType |-> joinType, table |-> table, on |-> on]
OrderByNode(column, direction) ==
  [type |-> "orderby", column |-> column, direction |-> direction]
WithNode(name, query) == [type |-> "with", name |-> name, query |-> query]

(***************************************************************************)
(* ParameterManager (parameter.manager.ts)                                 *)
(***************************************************************************)
SIMPLE == "SIMPLE"
NAMED == "NAMED"
POSITIONAL == "POSITIONAL"
QueryBuilderMode == {SIMPLE, NAMED, POSITIONAL}

\* a manager that is not fresh: it holds the parameter of an earlier call
ParameterManagerUsed(mode) ==
  [mode |-> mode,
   parameters |-> IF mode = NAMED
                  THEN [kind |-> "record", names |-> <<"param1">>, values |-> <<N(1)>>]
                  ELSE [kind |-> "list", names |-> <<>>, values |-> <<N(1)>>],
   paramIndex |-> 2]
\* constructor: NAMED keeps a name -> value record, the other modes a list
ParameterManager(mode) ==
  [mode |-> mode,
   parameters |-> IF mode = NAMED THEN [kind |-> "record", names |-> <<>>, values |-> <<>>]
                  ELSE [kind |-> "list", names |-> <<>>, values |-> <<>>],
   paramIndex |-> 1]

\* parameters[paramName] = value: overwrites an existing key, else adds it last
SetKey(params, name, value) ==
  IF \E i \in 1..Len(params.names) : params.names[i] = name
  THEN [params EXCEPT !.values =
          [i \in 1..Len(params.values) |->
             IF params.names[i] = name THEN value ELSE params.values[i]]]
  ELSE [params EXCEPT !.names = Append(@, name), !.values = Append(@, value)]

ParamName(i) == "param" \o ToString(i)

\* addParameter that never advances paramIndex
AddParameterSameIndex(pm, value) ==
  IF pm.mode = SIMPLE THEN [text |-> Str(value), pm |-> pm]
  ELSE IF pm.mode = NAMED
  THEN [text |-> "@" \o ParamName(pm.paramIndex),
        pm |-> [pm EXCEPT !.parameters = SetKey(@, ParamName(pm.paramIndex), value)]]
  ELSE [text |-> "?", pm |-> pm]
\* addParameter that puts a positional value first instead of last
AddParameterFirst(pm, value) ==
  IF pm.mode = SIMPLE THEN [text |-> Str(value), pm |-> pm]
  ELSE IF pm.mode = NAMED
  THEN [text |-> "@" \o ParamName(pm.paramIndex),
        pm |-> [pm EXCEPT !.parameters = SetKey(@, ParamName(pm.paramIndex), value),
                          !.paramIndex = @ + 1]]
  ELSE [text |-> "?",
        pm |-> [pm EXCEPT !.parameters.values = <<value>> \o @,
                          !.paramIndex = @ + 1]]
\* addParameter: the placeholder text and the manager after the call
AddParameter(pm, value) ==
  IF pm.mode = SIMPLE THEN [text |-> Str(value), pm |-> pm]
  ELSE IF pm.mode = NAMED
  THEN [text |-> "@" \o ParamName(pm.paramIndex),
        pm |-> [pm EXCEPT !.parameters = SetKey(@, ParamName(pm.paramIndex), value),
                          !.paramIndex = @ + 1]]
  ELSE [text |-> "?",
        pm |-> [pm EXCEPT !.parameters.values = Append(@, value),
                          !.paramIndex = @ + 1]]

\* getParameters without the SIMPLE-mode case
GetParametersAnyMode(pm) == pm.parameters
GetParameters(pm) == IF pm.mode = SIMPLE THEN Undef ELSE pm.parameters

(***************************************************************************)
(* valueWrapper (helper/where.ts)                                          *)
(***************************************************************************)
RECURSIVE valueWrapper(_)
valueWrapper(value) ==
  IF IsArray(value)
  THEN S("(" \o JoinStr([i \in 1..Len(value.items) |-> Str(valueWrapper(value.items[i]))], ",")
         \o ")")
  ELSE IF IsString(value) THEN S("'" \o value.s \o "'")
  ELSE value

(***************************************************************************)
(* ExpressionBuilder                                                       *)
(* A rendering step returns the text, the parameter manager after the step *)
(* and, when the step throws, ok = FALSE and the message of the error.     *)
(***************************************************************************)
Rendered(text, pm) == [text |-> text, pm |-> pm, ok |-> TRUE, message |-> ""]
Thrown(pm, message) == [text |-> "", pm |-> pm, ok |-> FALSE, message |-> message]
UnsupportedExpression == "Unsupported expression"

isSimpleLiteral(expr) ==
  /\ (IsString(expr.left) \/ IsNumber(expr.left))
  /\ ~Truthy(S(expr.operator))
  /\ ~Truthy(expr.right)
  /\ expr.type # "expression"

buildExpressionValue(expr, pm) ==
  IF IsArray(expr.left) THEN Rendered(Str(valueWrapper(expr.left)), pm)
  ELSE IF IsString(expr.left) THEN Rendered(expr.left.s, pm)
  ELSE Bind(AddParameter(pm, expr.left), LAMBDA r : Rendered(r.text, r.pm))

RECURSIVE buildExpression(_, _)
RECURSIVE buildBinaryExpression(_, _)
buildBinaryExpression(expr, pm) ==
  Bind(IF IsNode(expr.left) /\ expr.left.type = "expression" /\ IsString(expr.left.left)
       THEN Rendered(expr.left.left.s, pm)
       ELSE buildExpression(expr.left, pm),
       LAMBDA l :
    IF ~l.ok THEN l
    ELSE Bind(IF IsNode(expr.right) /\ expr.right.type = "expression"
                 /\ (IsString(expr.right.left) \/ IsNumber(expr.right.left))
              THEN Bind(AddParameter(l.pm, expr.right.left), LAMBDA a : Rendered(a.text, a.pm))
              ELSE buildExpression(expr.right, l.pm),
              LAMBDA r :
      IF ~r.ok THEN r
      ELSE Rendered(l.text \o " " \o expr.operator \o " " \o r.text, r.pm)))

buildExpression(expr, pm) ==
  IF ~(IsNode(expr) /\ expr.type = "expression") THEN Thrown(pm, UnsupportedExpression)
  ELSE IF IsString(expr.left) THEN Rendered(expr.left.s, pm)
  ELSE IF isSimpleLiteral(expr)
  THEN Bind(AddParameter(pm, expr.left), LAMBDA a : Rendered(a.text, a.pm))
  ELSE IF Truthy(S(expr.operator)) /\ Truthy(expr.right) THEN buildBinaryExpression(expr, pm)
  ELSE IF expr.left = Null THEN Rendered("NULL", pm)
  ELSE buildExpressionValue(expr, pm)

(***************************************************************************)
(* Helper constructors used by the builder (helper/index.ts, select.ts)    *)
(***************************************************************************)
\* select(arg)[0]: a string becomes a SelectNode over a leaf expression
select(arg) ==
  IF IsNode(arg) /\ arg.type = "select" THEN arg
  ELSE SelectNode(Leaf(arg), Undef)

\* from(fromNode): a string becomes a TableNode without alias
from(fromNode) ==
  IF IsString(fromNode) THEN TableNode(fromNode.s, Undef) ELSE fromNode

\* groupBy(columns): a string or an array becomes a GroupByNode
groupBy(columns) ==
  IF IsString(columns) THEN [type |-> "groupby", columns |-> <<columns>>]
  ELSE IF IsArray(columns) THEN [type |-> "groupby", columns |-> columns.items]
  ELSE columns

orderBy(column, direction) == OrderByNode(column, direction)

\* util.checkIsFromTable: the node is a TableNode, not a SubQueryNode
checkIsFromTable(node) == node.type = "table"

\* util.applyMaybeClause decides whether a clause is rendered: the SELECT and
\* FROM parts pass null and are always rendered, an absent field or an empty
\* sequence contributes nothing
ClausePresent(value) ==
  IF value = Null THEN TRUE
  ELSE IF value = Undef THEN FALSE
  ELSE IF IsArray(value) THEN Len(value.items) > 0
  ELSE TRUE

RECURSIVE TrimStart(_)
TrimStart(s) ==
  IF Len(s) > 0 /\ SubSeq(s, 1, 1) = " " THEN TrimStart(SubSeq(s, 2, Len(s))) ELSE s
RECURSIVE TrimEnd(_)
TrimEnd(s) ==
  IF Len(s) > 0 /\ SubSeq(s, Len(s), Len(s)) = " " THEN TrimEnd(SubSeq(s, 1, Len(s) - 1)) ELSE s
\* String.prototype.trim
Trim(s) == TrimEnd(TrimStart(s))

\* Array.prototype.filter(Boolean) on strings: drops the empty ones
RECURSIVE FilterBoolean(_)
FilterBoolean(strs) ==
  IF Len(strs) = 0 THEN <<>>
  ELSE IF strs[1] = "" THEN FilterBoolean(Tail(strs))
  ELSE <<strs[1]>> \o FilterBoolean(Tail(strs))

(***************************************************************************)
(* String helpers of the validation rules                                  *)
(***************************************************************************)
LowerCase == "abcdefghijklmnopqrstuvwxyz"
UpperCase == "ABCDEFGHIJKLMNOPQRSTUVWXYZ"
UpperChar(c) ==
  IF \E j \in 1..Len(LowerCase) : SubSeq(LowerCase, j, j) = c
  THEN LET j == CHOOSE j \in 1..Len(LowerCase) : SubSeq(LowerCase, j, j) = c
       IN SubSeq(UpperCase, j, j)
  ELSE c
RECURSIVE toUpperCase(_)
toUpperCase(s) ==
  IF Len(s) = 0 THEN ""
  ELSE UpperChar(SubSeq(s, 1, 1)) \o toUpperCase(SubSeq(s, 2, Len(s)))

RECURSIVE Split(_, _)
\* String.prototype.split with a non-empty separator
Split(s, sep) ==
  LET occ == Occurrences(s, sep)
  IN IF occ = {} THEN <<s>>
     ELSE LET i == CHOOSE i \in occ : \A j \in occ : i <= j
          IN <<SubSeq(s, 1, i - 1)>> \o Split(SubSeq(s, i + Len(sep), Len(s)), sep)

ValidationError(message, location, suggestion) ==
  [message |-> message, location |-> location, suggestion |-> suggestion]

RECURSIVE Flatten(_)
\* concatenation of a sequence of sequences (flatMap, concat, spread)
Flatten(seqs) ==
  IF Len(seqs) = 0 THEN <<>> ELSE seqs[1] \o Flatten(Tail(seqs))

(***************************************************************************)
(* LexicalAnalyzer                                                         *)
(***************************************************************************)
validOperators ==
  {"=", "!=", "<", "<=", ">", ">=", "<>", "IS", "IS NOT", "IN", "NOT IN",
   "BETWEEN", "NOT BETWEEN", "LIKE", "NOT LIKE", "AND", "OR", "NOT", "+", "-",
   "*", "/", "UNION ALL", "UNION DISTINCT", "EXCEPT DISTINCT", "EXCEPT ALL",
   "INTERSECT DISTINCT", "INTERSECT ALL", "||", "~", "&", "|", "^"}

reservedKeywords ==
  {"ALL", "AND", "ANY", "ARRAY", "AS", "ASC", "ASSERT_ROWS_MODIFIED", "AT",
   "BETWEEN", "BY", "CASE", "CAST", "COLLATE", "CONTAINS", "CREATE", "CROSS",
   "CUBE", "CURRENT", "DEFAULT", "DEFINE", "DESC", "DISTINCT", "ELSE", "END",
   "ENUM", "ESCAPE", "EXCEPT", "EXCLUDE", "EXISTS", "EXTRACT", "FALSE",
   "FETCH", "FOLLOWING", "FOR", "FROM", "FULL", "GROUP", "GROUPING", "GROUPS",
   "HASH", "HAVING", "IF", "IGNORE", "IN", "INNER", "INTERSECT", "INTERVAL",
   "INTO", "IS", "JOIN", "LATERAL", "LEFT", "LIKE", "LIMIT", "LOOKUP", "MERGE",
   "NATURAL", "NEW", "NO", "NOT", "NULL", "NULLS", "OF", "ON", "OR", "ORDER",
   "OUTER", "OVER", "PARTITION", "PRECEDING", "PROTO", "QUALIFY", "RANGE",
   "RECURSIVE", "RESPECT", "RIGHT", "ROLLUP", "ROWS", "SELECT", "SET", "SOME",
   "STRUCT", "TABLESAMPLE", "THEN", "TO", "TREAT", "TRUE", "UNBOUNDED",
   "UNION", "UNNEST", "USING", "WHEN", "WHERE", "WINDOW", "WITH", "WITHIN", "*"}

RECURSIVE traverseExpression(_)
\* util.traverseExpression: the (operand, operator) pairs handed to the
\* callback, one per expression node, parents before children, left before
\* right; a node that is not an expression is not entered
traverseExpression(expr) ==
  IF ~(IsNode(expr) /\ expr.type = "expression") THEN <<>>
  ELSE <<[operand |-> IF IsPrim(expr.left) THEN expr.left ELSE Undef,
          operator |-> expr.operator]>>
       \o traverseExpression(expr.left) \o traverseExpression(expr.right)

validateReservedKeywords(query) ==
  LET perVisit(v) ==
        IF IsString(v.operand) /\ toUpperCase(v.operand.s) \in reservedKeywords
        THEN <<ValidationError("Column name '" \o v.operand.s \o "' is a reserved SQL keyword.",
                               "SELECT", "Rename the column to avoid conflicts.")>>
        ELSE <<>>
      perSelect(sel) ==
        IF ~IsNode(sel) \/ sel.expression = Undef \/ sel.expression = Null THEN <<>>
        ELSE LET vs == traverseExpression(sel.expression)
             IN Flatten([i \in 1..Len(vs) |-> perVisit(vs[i])])
  IN Flatten([i \in 1..Len(query.selects) |-> perSelect(query.selects[i])])

validateOperators(query) ==
  LET conds == IF IsNode(query.where) THEN query.where.conditions ELSE <<>>
      perVisit(v) ==
        IF v.operator # "" /\ v.operator \notin validOperators
        THEN <<ValidationError("Invalid operator in condition: '" \o v.operator \o "'.",
                               "WHERE", "Use one of the valid operators.")>>
        ELSE <<>>
      perCond(c) ==
        LET vs == traverseExpression(c)
        IN Flatten([i \in 1..Len(vs) |-> perVisit(vs[i])])
  IN Flatten([i \in 1..Len(conds) |-> perCond(conds[i])])

LexicalAnalyzer(query, schema) ==
  validateReservedKeywords(query) \o validateOperators(query)

(***************************************************************************)
(* SyntaxAnalyzer                                                          *)
(***************************************************************************)
selectKeyFromExpression(left) ==
  IF IsString(left)
  THEN LET parts == Split(left.s, "as")
       IN IF Len(parts) > 1 THEN S(Trim(parts[2])) ELSE S(Trim(parts[1]))
  ELSE left

validateGroupByMatchSelect(query) ==
  LET selectColumn(s0) ==
        LET s1 == IF IsString(s0) THEN select(s0) ELSE s0
        IN IF Truthy(s1.alias) THEN s1.alias ELSE selectKeyFromExpression(s1.expression.left)
      selectColumns == {selectColumn(query.selects[i]) : i \in 1..Len(query.selects)}
      groupByColumns == groupBy(IF Truthy(query.groupBy) THEN query.groupBy ELSE Arr(<<>>)).columns
      perColumn(column) ==
        IF column \notin selectColumns
        THEN <<ValidationError("Column '" \o Str(column) \o "' in GROUP BY must be selected.",
                               "GROUP BY", "Add the column to the SELECT clause.")>>
        ELSE <<>>
  IN Flatten([i \in 1..Len(groupByColumns) |-> perColumn(groupByColumns[i])])

validateHavingRequiresGroupBy(query) ==
  IF /\ Truthy(query.having)
     /\ ~(/\ IsArray(query.orderBy)
          /\ \E i \in 1..Len(query.orderBy.items) : query.orderBy.items[i].column = "groupBy")
  THEN <<ValidationError("HAVING clause requires a GROUP BY clause.", "HAVING",
                         "Add a GROUP BY clause to your query.")>>
  ELSE <<>>

validateLimitWithOrderBy(query) ==
  IF Truthy(query.limit) /\ ~Truthy(query.orderBy)
  THEN <<ValidationError("LIMIT requires an ORDER BY clause for deterministic results.",
                         "LIMIT", "Add an ORDER BY clause to your query.")>>
  ELSE <<>>

SyntaxAnalyzer(query, schema) ==
  validateGroupByMatchSelect(query) \o validateHavingRequiresGroupBy(query)
    \o validateLimitWithOrderBy(query)

(***************************************************************************)
(* SchemaValidator                                                         *)
(* A schema is Undef or a record whose tables field maps a table name to   *)
(* the sequence of its column names.                                       *)
(***************************************************************************)
Schema(tables) == [ty |-> "schema", tables |-> tables]
includes(columns, name) == \E i \in 1..Len(columns) : columns[i] = name

\* the select rule without the lookup in the column list: every select item
\* that is a column reference is reported
validateColumnExistenceInSchemaAnyColumn(query, columns) ==
  LET fromNode == from(query.from)
      validateSelectNode(sel) ==
        IF /\ sel.expression.type = "expression"
           /\ IsString(sel.expression.left)
           /\ checkIsFromTable(fromNode)
        THEN <<ValidationError("Column '" \o sel.expression.left.s
                                 \o "' does not exist in table '" \o fromNode.name \o "'.",
                               "SELECT", "Check the column name or the table schema.")>>
        ELSE <<>>
  IN IF fromNode.type = "table"
     THEN Flatten([i \in 1..Len(query.selects) |-> validateSelectNode(select(query.selects[i]))])
     ELSE <<>>
validateColumnExistenceInSchema(query, columns) ==
  LET fromNode == from(query.from)
      validateSelectNode(sel) ==
        IF /\ sel.expression.type = "expression"
           /\ IsString(sel.expression.left)
           /\ ~includes(columns, sel.expression.left.s)
           /\ checkIsFromTable(fromNode)
        THEN <<ValidationError("Column '" \o sel.expression.left.s
                                 \o "' does not exist in table '" \o fromNode.name \o "'.",
                               "SELECT", "Check the column name or the table schema.")>>
        ELSE <<>>
  IN IF fromNode.type = "table"
     THEN Flatten([i \in 1..Len(query.selects) |-> validateSelectNode(select(query.selects[i]))])
     ELSE <<>>

RECURSIVE validateExpressionNode(_, _, _)
validateExpressionNode(expression, fromNode, columns) ==
  LET l == IF IsString(expression.left)
           THEN IF ~includes(columns, expression.left.s) /\ fromNode.type = "table"
                THEN <<ValidationError("Column '" \o expression.left.s
                                         \o "' does not exist in table '" \o fromNode.name \o "'.",
                                       "WHERE", "Check the column name or the table schema.")>>
                ELSE <<>>
           ELSE IF IsNode(expression.left) /\ expression.left.type # "query"
           THEN validateExpressionNode(expression.left, fromNode, columns)
           ELSE <<>>
      r == IF IsNode(expression.right) /\ expression.right.type # "query"
           THEN validateExpressionNode(expression.right, fromNode, columns)
           ELSE <<>>
  IN l \o r

RECURSIVE validateCondition(_, _, _)
validateCondition(condition, fromNode, columns) ==
  IF condition.type = "filter"
  THEN Flatten([i \in 1..Len(condition.conditions) |->
                  validateCondition(condition.conditions[i], fromNode, columns)])
  ELSE IF condition.type = "expression"
  THEN validateExpressionNode(condition, fromNode, columns)
  ELSE <<>>

validateColumnExistenceInWhere(query, columns) ==
  LET fromNode == from(query.from)
  IN IF IsNode(query.where) /\ fromNode.type = "table"
     THEN Flatten([i \in 1..Len(query.where.conditions) |->
                     validateCondition(query.where.conditions[i], fromNode, columns)])
     ELSE <<>>

RECURSIVE expressionNodeThrows(_)
\* validateExpressionNode reads left.type of a null left: a TypeError
expressionNodeThrows(expression) ==
  \/ expression.left = Null
  \/ /\ IsNode(expression.left) /\ expression.left.type = "expression"
     /\ expressionNodeThrows(expression.left)
  \/ /\ IsNode(expression.right) /\ expression.right.type = "expression"
     /\ expressionNodeThrows(expression.right)

RECURSIVE conditionThrows(_)
conditionThrows(condition) ==
  IF condition.type = "filter"
  THEN \E i \in 1..Len(condition.conditions) : conditionThrows(condition.conditions[i])
  ELSE condition.type = "expression" /\ expressionNodeThrows(condition)

\* the schema rule going on to the column checks, against no columns, after it
\* reported an unknown table
SchemaValidatorUnknownTableColumns(query, schema) ==
  LET fromNode == from(query.from)
  IN IF ~Truthy(schema) \/ ~checkIsFromTable(fromNode) THEN <<>>
     ELSE IF fromNode.name \notin DOMAIN schema.tables
     THEN <<ValidationError("Table '" \o fromNode.name \o "' does not exist in the schema.",
                            "FROM", "Ensure the table exists in the database.")>>
            \o validateColumnExistenceInSchema(query, <<>>)
            \o validateColumnExistenceInWhere(query, <<>>)
     ELSE validateColumnExistenceInSchema(query, schema.tables[fromNode.name])
            \o validateColumnExistenceInWhere(query, schema.tables[fromNode.name])
SchemaValidator(query, schema) ==
  LET fromNode == from(query.from)
  IN IF ~Truthy(schema) \/ ~checkIsFromTable(fromNode) THEN <<>>
     ELSE IF fromNode.name \notin DOMAIN schema.tables
     THEN <<ValidationError("Table '" \o fromNode.name \o "' does not exist in the schema.",
                            "FROM", "Ensure the table exists in the database.")>>
     ELSE validateColumnExistenceInSchema(query, schema.tables[fromNode.name])
            \o validateColumnExistenceInWhere(query, schema.tables[fromNode.name])

\* the schema rule throws a TypeError instead of returning
SchemaValidatorThrows(query, schema) ==
  LET fromNode == from(query.from)
  IN /\ Truthy(schema) /\ checkIsFromTable(fromNode)
     /\ fromNode.name \in DOMAIN schema.tables
     /\ IsNode(query.where)
     /\ \E i \in 1..Len(query.where.conditions) : conditionThrows(query.where.conditions[i])

(***************************************************************************)
(* ValidationPipeline                                                      *)
(***************************************************************************)
\* a pipeline that stops at the first rule that reports an error
ValidationPipelineFirstFailure(query, schema) ==
  IF LexicalAnalyzer(query, schema) # <<>> THEN LexicalAnalyzer(query, schema)
  ELSE IF SyntaxAnalyzer(query, schema) # <<>> THEN SyntaxAnalyzer(query, schema)
  ELSE SchemaValidator(query, schema)
\* rules.flatMap(rule => rule.validate(query, schema)), rules in constructor order
ValidationPipeline(query, schema) ==
  Flatten(<<LexicalAnalyzer(query, schema), SyntaxAnalyzer(query, schema),
            SchemaValidator(query, schema)>>)

(***************************************************************************)
(* QueryBuilder                                                            *)
(***************************************************************************)
QueryNode(selects, fromNode) ==
  [type |-> "query", selects |-> selects, from |-> fromNode, joins |-> Undef,
   where |-> Undef, groupBy |-> Undef, having |-> Undef, orderBy |-> Undef,
   limit |-> Undef, offset |-> Undef, with |-> Undef, unions |-> Undef,
   qualify |-> Undef]

mapJoinType(joinType) ==
  CASE joinType = "INNER" -> "INNER JOIN"
    [] joinType = "LEFT" -> "LEFT JOIN"
    [] joinType = "RIGHT" -> "RIGHT JOIN"
    [] joinType = "FULL" -> "FULL JOIN"
    [] joinType = "CROSS" -> "CROSS JOIN"
    [] OTHER -> "JOIN"

\* the outcome of a list of rendering steps sharing one parameter manager
RenderedList(texts, pm, ok, message) ==
  [texts |-> texts, pm |-> pm, ok |-> ok, message |-> message]

RECURSIVE buildExpressions(_, _)
\* exprs.map(buildExpression), left to right
buildExpressions(exprs, pm) ==
  IF Len(exprs) = 0 THEN RenderedList(<<>>, pm, TRUE, "")
  ELSE Bind(buildExpression(exprs[1], pm), LAMBDA h :
         IF ~h.ok THEN RenderedList(<<>>, h.pm, FALSE, h.message)
         ELSE Bind(buildExpressions(Tail(exprs), h.pm), LAMBDA t :
                RenderedList(<<h.text>> \o t.texts, t.pm, t.ok, t.message)))

buildSelectClause(selects, pm) ==
  LET normalizedSelects == [i \in 1..Len(selects) |->
                              IF IsString(selects[i]) THEN select(selects[i]) ELSE selects[i]]
  IN Bind(buildExpressions([i \in 1..Len(selects) |-> normalizedSelects[i].expression], pm),
          LAMBDA built :
       IF ~built.ok THEN Thrown(built.pm, built.message)
       ELSE Rendered(JoinStr([i \in 1..Len(selects) |->
                                IF Truthy(normalizedSelects[i].alias)
                                THEN built.texts[i] \o " AS " \o Str(normalizedSelects[i].alias)
                                ELSE built.texts[i]], ", "), built.pm))

RECURSIVE buildWhereCondition(_, _, _)
RECURSIVE buildWhereConditions(_, _, _)
\* buildCondition that parenthesizes every nested filter, as buildHavingClause does
buildWhereConditionParenthesized(condition, parentOperator, pm) ==
  IF IsNode(condition) /\ condition.type = "filter"
  THEN Bind(buildWhereConditions(condition.conditions, condition.operator, pm), LAMBDA nested :
         IF ~nested.ok THEN Thrown(nested.pm, nested.message)
         ELSE Rendered("(" \o JoinStr(nested.texts, " " \o condition.operator \o " ") \o ")",
                       nested.pm))
  ELSE buildExpression(condition, pm)
\* buildCondition that never parenthesizes a nested filter
buildWhereConditionBare(condition, parentOperator, pm) ==
  IF IsNode(condition) /\ condition.type = "filter"
  THEN Bind(buildWhereConditions(condition.conditions, condition.operator, pm), LAMBDA nested :
         IF ~nested.ok THEN Thrown(nested.pm, nested.message)
         ELSE Rendered(JoinStr(nested.texts, " " \o condition.operator \o " "), nested.pm))
  ELSE buildExpression(condition, pm)
\* buildCondition of buildWhereClause; parentOperator is "" when not given
buildWhereCondition(condition, parentOperator, pm) ==
  IF IsNode(condition) /\ condition.type = "filter"
  THEN Bind(buildWhereConditions(condition.conditions, condition.operator, pm), LAMBDA nested :
         IF ~nested.ok THEN Thrown(nested.pm, nested.message)
         ELSE Bind(JoinStr(nested.texts, " " \o condition.operator \o " "),
                   LAMBDA nestedConditions :
                IF parentOperator # "" /\ parentOperator # condition.operator
                THEN Rendered("(" \o nestedConditions \o ")", nested.pm)
                ELSE Rendered(nestedConditions, nested.pm)))
  ELSE buildExpression(condition, pm)

buildWhereConditions(conds, parentOperator, pm) ==
  IF Len(conds) = 0 THEN RenderedList(<<>>, pm, TRUE, "")
  ELSE Bind(buildWhereCondition(conds[1], parentOperator, pm), LAMBDA h :
         IF ~h.ok THEN RenderedList(<<>>, h.pm, FALSE, h.message)
         ELSE Bind(buildWhereConditions(Tail(conds), parentOperator, h.pm), LAMBDA t :
                RenderedList(<<h.text>> \o t.texts, t.pm, t.ok, t.message)))

buildWhereClause(where, pm) ==
  IF Len(where.conditions) = 0 THEN Rendered("", pm)
  ELSE Bind(buildWhereConditions(where.conditions, where.operator, pm), LAMBDA built :
         IF ~built.ok THEN Thrown(built.pm, built.message)
         ELSE Rendered("WHERE " \o JoinStr(built.texts, " " \o where.operator \o " "), built.pm))

RECURSIVE buildHavingCondition(_, _)
RECURSIVE buildHavingConditions(_, _)
\* buildCondition of buildHavingClause
buildHavingCondition(condition, pm) ==
  IF IsNode(condition) /\ condition.type = "filter"
  THEN Bind(buildHavingConditions(condition.conditions, pm), LAMBDA nested :
         IF ~nested.ok THEN Thrown(nested.pm, nested.message)
         ELSE Rendered("(" \o JoinStr(nested.texts, " " \o condition.operator \o " ") \o ")",
                       nested.pm))
  ELSE buildExpression(condition, pm)

buildHavingConditions(conds, pm) ==
  IF Len(conds) = 0 THEN RenderedList(<<>>, pm, TRUE, "")
  ELSE Bind(buildHavingCondition(conds[1], pm), LAMBDA h :
         IF ~h.ok THEN RenderedList(<<>>, h.pm, FALSE, h.message)
         ELSE Bind(buildHavingConditions(Tail(conds), h.pm), LAMBDA t :
                RenderedList(<<h.text>> \o t.texts, t.pm, t.ok, t.message)))

buildHavingClause(having, pm) ==
  IF Len(having.conditions) = 0 THEN Rendered("", pm)
  ELSE Bind(buildHavingConditions(having.conditions, pm), LAMBDA built :
         IF ~built.ok THEN Thrown(built.pm, built.message)
         ELSE Rendered("HAVING " \o JoinStr(built.texts, " " \o having.operator \o " "), built.pm))

buildGroupByClause(_groupBy) ==
  LET normalizedGroupBy == groupBy(_groupBy)
  IN "GROUP BY " \o JoinStr([i \in 1..Len(normalizedGroupBy.columns) |->
                               Str(normalizedGroupBy.columns[i])], ", ")

buildOrderByClause(orderByNodes) ==
  "ORDER BY " \o JoinStr([i \in 1..Len(orderByNodes) |->
                            orderByNodes[i].column \o " " \o orderByNodes[i].direction], ", ")

buildLimitClause(limit) == "LIMIT " \o Str(limit)
buildOffsetClause(offset) == "OFFSET " \o Str(offset)

\* QueryBuilder.validate: the message of the error it throws, "" when it returns
validate(queryNode, schema) ==
  Bind(ValidationPipeline(queryNode, schema), LAMBDA errors :
    IF Len(errors) > 0
    THEN "Query validation failed:\n"
           \o JoinStr([i \in 1..Len(errors) |->
                         "- " \o errors[i].message \o " (Location: " \o errors[i].location \o ")"],
                      "\n")
    ELSE "")

TypeErrorMessage == "TypeError"
BuildResult(query, parameters) ==
  [ok |-> TRUE, query |-> query, parameters |-> parameters, message |-> ""]
BuildThrown(message) ==
  [ok |-> FALSE, query |-> "", parameters |-> Undef, message |-> message]

RECURSIVE build(_, _, _)
RECURSIVE buildQuery(_, _, _)
RECURSIVE buildWithClause(_, _)
RECURSIVE buildFromClause(_, _)
RECURSIVE buildJoinTable(_, _)
RECURSIVE buildJoinClause(_, _, _)

\* WITH name AS (nested build), ...: every CTE is built by a nested build call
buildWithClause(withNodes, mode) ==
  Bind([i \in 1..Len(withNodes) |-> build(withNodes[i].query, Undef, mode)], LAMBDA nested :
    Bind({i \in 1..Len(withNodes) : ~nested[i].ok}, LAMBDA failed :
      IF failed # {}
      THEN Thrown(Undef, nested[CHOOSE i \in failed : \A j \in failed : i <= j].message)
      ELSE Rendered("WITH " \o JoinStr([i \in 1..Len(withNodes) |->
                                          withNodes[i].name \o " AS (" \o nested[i].query \o ")"],
                                       ", "), Undef)))

buildFromClause(fromNode, mode) ==
  LET f == from(fromNode)
      alias == IF Truthy(f.alias) THEN " AS " \o Str(f.alias) ELSE ""
  IN IF checkIsFromTable(f) THEN Rendered("FROM " \o f.name \o alias, Undef)
     ELSE Bind(build(f.query, Undef, mode), LAMBDA nested :
            IF ~nested.ok THEN Thrown(Undef, nested.message)
            ELSE Rendered("FROM (" \o nested.query \o ")" \o alias, Undef))

buildJoinTable(table, mode) ==
  LET alias == IF Truthy(table.alias) THEN " AS " \o Str(table.alias) ELSE ""
  IN IF checkIsFromTable(table) THEN Rendered(table.name \o alias, Undef)
     ELSE Bind(build(table.query, Undef, mode), LAMBDA nested :
            IF ~nested.ok THEN Thrown(Undef, nested.message)
            ELSE Rendered("(" \o nested.query \o ")" \o alias, Undef))

\* joins.map(...).join(" "): the texts of the joins, left to right
buildJoinClause(joins, pm, mode) ==
  IF Len(joins) = 0 THEN RenderedList(<<>>, pm, TRUE, "")
  ELSE Bind(buildJoinTable(joins[1].table, mode), LAMBDA table :
         IF ~table.ok THEN RenderedList(<<>>, pm, FALSE, table.message)
         ELSE Bind(buildExpression(joins[1].on, pm), LAMBDA on :
                IF ~on.ok THEN RenderedList(<<>>, on.pm, FALSE, on.message)
                ELSE Bind(buildJoinClause(Tail(joins), on.pm, mode), LAMBDA t :
                       RenderedList(<<mapJoinType(joins[1].joinType) \o " " \o table.text
                                        \o " ON " \o on.text>> \o t.texts,
                                    t.pm, t.ok, t.message))))

\* the parts with HAVING placed before GROUP BY
getQueryPartsHavingFirst(queryNode) ==
  <<[clause |-> "WITH", value |-> queryNode.with],
    [clause |-> "SELECT", value |-> Null],
    [clause |-> "FROM", value |-> Null],
    [clause |-> "JOIN", value |-> queryNode.joins],
    [clause |-> "WHERE", value |-> queryNode.where],
    [clause |-> "HAVING", value |-> queryNode.having],
    [clause |-> "GROUP BY", value |-> queryNode.groupBy],
    [clause |-> "ORDER BY", value |-> queryNode.orderBy],
    [clause |-> "LIMIT", value |-> queryNode.limit],
    [clause |-> "OFFSET", value |-> queryNode.offset]>>
\* getQueryParts that hands the QUALIFY filter, when there is one, to the WHERE builder
getQueryPartsQualifyAsWhere(queryNode) ==
  <<[clause |-> "WITH", value |-> queryNode.with],
    [clause |-> "SELECT", value |-> Null],
    [clause |-> "FROM", value |-> Null],
    [clause |-> "JOIN", value |-> queryNode.joins],
    [clause |-> "WHERE",
     value |-> IF Truthy(queryNode.qualify) THEN queryNode.qualify ELSE queryNode.where],
    [clause |-> "GROUP BY", value |-> queryNode.groupBy],
    [clause |-> "HAVING", value |-> queryNode.having],
    [clause |-> "ORDER BY", value |-> queryNode.orderBy],
    [clause |-> "LIMIT", value |-> queryNode.limit],
    [clause |-> "OFFSET", value |-> queryNode.offset]>>
\* the clauses in rendering order, each with the value handed to applyMaybeClause
getQueryParts(queryNode) ==
  <<[clause |-> "WITH", value |-> queryNode.with],
    [clause |-> "SELECT", value |-> Null],
    [clause |-> "FROM", value |-> Null],
    [clause |-> "JOIN", value |-> queryNode.joins],
    [clause |-> "WHERE", value |-> queryNode.where],
    [clause |-> "GROUP BY", value |-> queryNode.groupBy],
    [clause |-> "HAVING", value |-> queryNode.having],
    [clause |-> "ORDER BY", value |-> queryNode.orderBy],
    [clause |-> "LIMIT", value |-> queryNode.limit],
    [clause |-> "OFFSET", value |-> queryNode.offset]>>

\* the builder of one part, applied to its value
RECURSIVE buildPart(_, _, _, _)
buildPart(part, queryNode, pm, mode) ==
  CASE part.clause = "WITH" ->
         Bind(buildWithClause(part.value.items, mode), LAMBDA w : [w EXCEPT !.pm = pm])
    [] part.clause = "SELECT" ->
         Bind(buildSelectClause(queryNode.selects, pm), LAMBDA sel :
           IF ~sel.ok THEN sel ELSE Rendered("SELECT " \o sel.text, sel.pm))
    [] part.clause = "FROM" ->
         Bind(buildFromClause(queryNode.from, mode), LAMBDA f : [f EXCEPT !.pm = pm])
    [] part.clause = "JOIN" ->
         Bind(buildJoinClause(part.value.items, pm, mode), LAMBDA j :
           IF ~j.ok THEN Thrown(j.pm, j.message) ELSE Rendered(JoinStr(j.texts, " "), j.pm))
    [] part.clause = "WHERE" -> buildWhereClause(part.value, pm)
    [] part.clause = "GROUP BY" -> Rendered(buildGroupByClause(part.value), pm)
    [] part.clause = "HAVING" -> buildHavingClause(part.value, pm)
    [] part.clause = "ORDER BY" -> Rendered(buildOrderByClause(part.value.items), pm)
    [] part.clause = "LIMIT" -> Rendered(buildLimitClause(part.value), pm)
    [] part.clause = "OFFSET" -> Rendered(buildOffsetClause(part.value), pm)

RECURSIVE buildParts(_, _, _, _)
\* queryParts.map(({value, builder}) => applyMaybeClause(value, builder))
buildParts(parts, queryNode, pm, mode) ==
  IF Len(parts) = 0 THEN RenderedList(<<>>, pm, TRUE, "")
  ELSE Bind(IF ClausePresent(parts[1].value)
            THEN buildPart(parts[1], queryNode, pm, mode)
            ELSE Rendered("", pm),
            LAMBDA h :
         IF ~h.ok THEN RenderedList(<<>>, h.pm, FALSE, h.message)
         ELSE Bind(buildParts(Tail(parts), queryNode, h.pm, mode), LAMBDA t :
                RenderedList(<<h.text>> \o t.texts, t.pm, t.ok, t.message)))

buildQuery(queryNode, pm, mode) ==
  Bind(buildParts(getQueryParts(queryNode), queryNode, pm, mode), LAMBDA queryParts :
    IF ~queryParts.ok THEN Thrown(queryParts.pm, queryParts.message)
    ELSE Rendered(Trim(JoinStr(FilterBoolean(queryParts.texts), " ")), queryParts.pm))

\* QueryBuilder.build with this.mode = mode
build(queryNode, schema, mode) ==
  IF SchemaValidatorThrows(queryNode, schema) THEN BuildThrown(TypeErrorMessage)
  ELSE Bind(validate(queryNode, schema), LAMBDA message :
         IF message # "" THEN BuildThrown(message)
         ELSE Bind(buildQuery(queryNode, ParameterManager(mode), mode), LAMBDA built :
                IF ~built.ok THEN BuildThrown(built.message)
                ELSE BuildResult(built.text, GetParameters(built.pm))))

(***************************************************************************)
(* ASTMapper                                                               *)
(* A raw parse-tree node is a record with a type field; an absent child is *)
(* Null.  A mapping step that throws yields a record of type "throw".      *)
(* The raw expression kinds modelled are column_ref, binary_expr, star,    *)
(* is_expr, aggr_func, expr_list and the literals; any other type reaches  *)
(* the default branch of mapExpression.                                    *)
(***************************************************************************)
MapThrow(message) == [type |-> "throw", message |-> message]
IsThrow(v) == IsNode(v) /\ v.type = "throw"
\* the first thrown step among the results of a left-to-right evaluation
FirstThrow(results) ==
  results[CHOOSE i \in 1..Len(results) :
            IsThrow(results[i]) /\ \A j \in 1..(i - 1) : ~IsThrow(results[j])]
AnyThrow(results) == \E i \in 1..Len(results) : IsThrow(results[i])

RawColumnRef(table, column) == [type |-> "column_ref", table |-> table, column |-> column]
RawBinary(operator, left, right, parentheses) ==
  [type |-> "binary_expr", operator |-> operator, left |-> left, right |-> right,
   parentheses |-> parentheses]
RawLiteral(type, value) == [type |-> type, value |-> value]
RawOperator(node) == IF IsNode(node) /\ "operator" \in DOMAIN node THEN node.operator ELSE ""
RawParentheses(node) ==
  IF IsNode(node) /\ "parentheses" \in DOMAIN node THEN node.parentheses ELSE FALSE

InvalidExpression == "Invalid expression"
UnsupportedExpressionType == "Unsupported expression type"

RECURSIVE mapExpression(_)
mapExpression(expr) ==
  IF ~IsNode(expr) THEN MapThrow(InvalidExpression)
  ELSE CASE expr.type = "column_ref" ->
              Leaf(IF expr.table # "" THEN S(expr.table \o "." \o expr.column)
                   ELSE S(expr.column))
         [] expr.type = "binary_expr" ->
              LET l == mapExpression(expr.left)
                  r == mapExpression(expr.right)
              IN IF IsThrow(l) THEN l ELSE IF IsThrow(r) THEN r
                 ELSE ExpressionNode(l, expr.operator, r)
         [] expr.type = "star" -> Leaf(S("*"))
         [] expr.type = "is_expr" ->
              LET l == mapExpression(expr.left)
                  r == IF Truthy(expr.right) THEN mapExpression(expr.right) ELSE Leaf(Undef)
              IN IF IsThrow(l) THEN l ELSE IF IsThrow(r) THEN r
                 ELSE ExpressionNode(l.left, expr.operator, r.left)
         [] expr.type = "aggr_func" ->
              LET inner == IF expr.args # Null THEN expr.args.expr ELSE Undef
                  arg == IF IsNode(inner) /\ inner.type = "star" THEN Leaf(S("*"))
                         ELSE IF Truthy(inner) THEN mapExpression(inner)
                         ELSE Leaf(S(""))
              IN IF IsThrow(arg) THEN arg
                 ELSE Leaf(S(expr.name \o "(" \o Str(arg.left) \o ")"))
         [] expr.type = "expr_list" ->
              LET args == [i \in 1..Len(expr.value) |-> mapExpression(expr.value[i])]
              IN IF AnyThrow(args) THEN FirstThrow(args)
                 ELSE Leaf(S("(" \o JoinStr([i \in 1..Len(args) |-> Str(args[i].left)], ", ")
                             \o ")"))
         [] expr.type = "single_quote_string" -> Leaf(S("'" \o Str(expr.value) \o "'"))
         [] expr.type \in {"null", "number", "string"} -> Leaf(expr.value)
         [] OTHER -> MapThrow(UnsupportedExpressionType)

RECURSIVE processNode(_)
RECURSIVE buildConditions(_)
processNode(node) ==
  IF node.type # "binary_expr"
  THEN LET e == mapExpression(node) IN IF IsThrow(e) THEN e ELSE FilterNode("AND", <<e>>)
  ELSE IF node.operator = "AND" \/ node.operator = "OR"
  THEN IF node.parentheses
       THEN LET l == buildConditions(node.left)
                r == buildConditions(node.right)
            IN IF AnyThrow(l) THEN FirstThrow(l) ELSE IF AnyThrow(r) THEN FirstThrow(r)
               ELSE FilterNode(node.operator, l \o r)
       ELSE LET leftConditions ==
                  IF RawOperator(node.left) = node.operator /\ ~RawParentheses(node.left)
                  THEN buildConditions(node.left)
                  ELSE <<processNode(node.left)>>
                rightConditions ==
                  IF RawOperator(node.right) = node.operator /\ ~RawParentheses(node.right)
                  THEN buildConditions(node.right)
                  ELSE <<processNode(node.right)>>
            IN IF AnyThrow(leftConditions) THEN FirstThrow(leftConditions)
               ELSE IF AnyThrow(rightConditions) THEN FirstThrow(rightConditions)
               ELSE FilterNode(node.operator, leftConditions \o rightConditions)
  ELSE LET e == mapExpression(node) IN IF IsThrow(e) THEN e ELSE FilterNode("AND", <<e>>)

buildConditions(node) ==
  IF ~Truthy(node) THEN <<>>
  ELSE IF node.type # "binary_expr" THEN <<mapExpression(node)>>
  ELSE IF node.operator = "AND" \/ node.operator = "OR" THEN <<processNode(node)>>
  ELSE <<mapExpression(node)>>

InvalidFilterNode == "Invalid filter node"
\* mapFilter that takes the right operand of the root before the left one
mapFilterSwapped(filter) ==
  IF ~IsNode(filter) THEN MapThrow(InvalidFilterNode)
  ELSE IF filter.type = "binary_expr" /\ filter.operator \in {"AND", "OR"}
  THEN processNode([filter EXCEPT !.left = filter.right, !.right = filter.left])
  ELSE processNode(filter)
mapFilter(filter) ==
  IF ~IsNode(filter) THEN MapThrow(InvalidFilterNode) ELSE processNode(filter)

\* a raw object that is not an expression node: a column entry, a from entry,
\* a CTE, a GROUP BY or LIMIT holder
Obj(fields) == [ty |-> "object"] @@ fields
RawColumn(expr, as) == Obj([expr |-> expr, as |-> as])
RawFrom(table, as, join, on) == Obj([table |-> table, as |-> as, join |-> join, on |-> on])
RawCte(name, stmt) == Obj([name |-> name, stmt |-> stmt])
RawOrder(expr, type) == Obj([expr |-> expr, type |-> type])
RawSelect(columns, fromList) ==
  [type |-> "select", with |-> Null, columns |-> columns, from |-> fromList,
   where |-> Null, groupby |-> Null, having |-> Null, orderby |-> Null, limit |-> Null]
ParsedAST(ast) == Obj([ast |-> ast])

\* String.prototype.replace(pattern, replacement): the first occurrence only
Replace(s, pattern, replacement) ==
  LET occ == Occurrences(s, pattern)
  IN IF occ = {} THEN s
     ELSE LET i == CHOOSE i \in occ : \A j \in occ : i <= j
          IN SubSeq(s, 1, i - 1) \o replacement \o SubSeq(s, i + Len(pattern), Len(s))

InvalidAST == "Invalid AST: Root node must be a SELECT query."
InvalidColumns == "Invalid AST structure: 'columns' must be an array."

\* mapSelects that keeps going when an expression fails: the item is mapped
\* without its expression
mapSelectsPartial(columns) ==
  IF ~IsArray(columns) THEN <<MapThrow(InvalidColumns)>>
  ELSE [i \in 1..Len(columns.items) |->
          LET e == mapExpression(columns.items[i].expr)
          IN SelectNode(IF IsThrow(e) THEN Leaf(Undef) ELSE e,
                        IF Truthy(columns.items[i].as) THEN columns.items[i].as ELSE Undef)]
mapSelects(columns) ==
  IF ~IsArray(columns) THEN <<MapThrow(InvalidColumns)>>
  ELSE [i \in 1..Len(columns.items) |->
          LET e == mapExpression(columns.items[i].expr)
          IN IF IsThrow(e) THEN e
             ELSE SelectNode(e, IF Truthy(columns.items[i].as) THEN columns.items[i].as
                                ELSE Undef)]

mapFrom(fromList) ==
  IF ~IsArray(fromList) \/ Len(fromList.items) = 0 THEN MapThrow(TypeErrorMessage)
  ELSE LET mainTable == fromList.items[1]
       IN TableNode(mainTable.table, IF Truthy(mainTable.as) THEN mainTable.as ELSE Undef)

mapJoins(fromList) ==
  IF ~IsArray(fromList) THEN <<MapThrow(TypeErrorMessage)>>
  ELSE [i \in 1..(Len(fromList.items) - 1) |->
          LET join == fromList.items[i + 1]
              on == mapExpression(join.on)
          IN IF ~IsString(join.join) THEN MapThrow(TypeErrorMessage)
             ELSE IF IsThrow(on) THEN on
             ELSE JoinNode(toUpperCase(Replace(join.join.s, " JOIN", "")),
                           TableNode(join.table, IF Truthy(join.as) THEN join.as ELSE Undef),
                           on)]

mapGroupBy(groupby) ==
  LET cols == [i \in 1..Len(groupby.columns) |-> mapExpression(groupby.columns[i])]
  IN IF AnyThrow(cols) THEN FirstThrow(cols)
     ELSE [type |-> "groupby", columns |-> [i \in 1..Len(cols) |-> cols[i].left]]

mapOrderBy(orderby) ==
  [i \in 1..Len(orderby.items) |->
     LET e == mapExpression(orderby.items[i].expr)
     IN IF IsThrow(e) THEN e
        ELSE OrderByNode(Str(e.left), toUpperCase(orderby.items[i].type))]

\* JSON.parse(JSON.stringify(result)): an undefined property is dropped, which
\* reads back as undefined; an undefined array element becomes null
JsonClone(result) ==
  [result EXCEPT !.groupBy =
     IF IsNode(@)
     THEN [@ EXCEPT !.columns = [i \in 1..Len(@) |-> IF @[i] = Undef THEN Null ELSE @[i]]]
     ELSE @]

RECURSIVE map(_)
mapWithClauses(withClauses) ==
  [i \in 1..Len(withClauses.items) |->
     LET q == map(withClauses.items[i].stmt)
     IN IF IsThrow(q) THEN q ELSE WithNode(withClauses.items[i].name, q)]

map(parsedAST) ==
  LET ast == parsedAST.ast
  IN IF IsArray(ast)
     THEN map(ParsedAST(IF Len(ast.items) > 0 THEN ast.items[1] ELSE Undef))
     ELSE IF ~(IsNode(ast) /\ ast.type = "select") THEN MapThrow(InvalidAST)
     ELSE LET withNodes == IF Truthy(ast.with) THEN mapWithClauses(ast.with) ELSE <<>>
              selects == mapSelects(ast.columns)
              fromNode == mapFrom(ast.from)
              joins == mapJoins(ast.from)
              where == IF Truthy(ast.where) THEN mapFilter(ast.where) ELSE Undef
              groupByNode == IF Truthy(ast.groupby) THEN mapGroupBy(ast.groupby) ELSE Undef
              having == IF Truthy(ast.having) THEN mapFilter(ast.having) ELSE Undef
              orderByNodes == IF Truthy(ast.orderby) THEN mapOrderBy(ast.orderby) ELSE <<>>
              limitValue(i) ==
                IF ast.limit # Null /\ Len(ast.limit.value) >= i
                THEN ast.limit.value[i].value ELSE Undef
              steps == withNodes \o selects \o <<fromNode>> \o joins
                         \o <<where, groupByNode, having>> \o orderByNodes
          IN IF AnyThrow(steps) THEN FirstThrow(steps)
             ELSE JsonClone(
                    [type |-> "query", with |-> Arr(withNodes), selects |-> selects,
                     from |-> fromNode, joins |-> Arr(joins), where |-> where,
                     groupBy |-> groupByNode, having |-> having,
                     orderBy |-> Arr(orderByNodes), limit |-> limitValue(1),
                     offset |-> limitValue(2), unions |-> Arr(<<>>), qualify |-> Undef])

(***************************************************************************)
(* where helpers (helper/where.ts)                                         *)
(***************************************************************************)
\* one entry of the array handed to conditions()
Condition(column, operator, value) ==
  [column |-> column, operator |-> operator, value |-> value]

conditionExpression(c) ==
  ExpressionNode(Leaf(S(c.column)), c.operator, Leaf(valueWrapper(c.value)))

RECURSIVE conditionsReduce(_, _, _)
\* conditions.slice(1).reduce(...): acc AND/OR the next condition
conditionsReduce(acc, rest, booleanOperator) ==
  IF Len(rest) = 0 THEN acc
  ELSE conditionsReduce(ExpressionNode(acc, booleanOperator, conditionExpression(rest[1])),
                        Tail(rest), booleanOperator)

\* conditions(): reads conditions[0], so an empty array throws a TypeError
conditions(conds, booleanOperator) ==
  IF Len(conds) = 0 THEN MapThrow(TypeErrorMessage)
  ELSE IF Len(conds) = 1 THEN conditionExpression(conds[1])
  ELSE conditionsReduce(conditionExpression(conds[1]), Tail(conds), booleanOperator)

\* v == s for a string s, with JavaScript's loose equality
LooseEqualsString(v, s) ==
  IF IsNode(v) THEN FALSE
  ELSE CASE v.ty = "string" -> v.s = s
         [] v.ty = "array" -> Str(v) = s
         [] OTHER -> FALSE

RECURSIVE validConditions(_)
validConditions(conds) ==
  IF Len(conds) = 0 THEN <<>>
  ELSE LET condition == conds[1]
           keep == IF IsNode(condition.right) /\ condition.right.type = "expression"
                   THEN ~LooseEqualsString(condition.right.left, "()")
                   ELSE TRUE
       IN (IF keep THEN <<condition>> ELSE <<>>) \o validConditions(Tail(conds))

\* where(conditions, operator): a single expression is wrapped in an array
where(conds, operator) ==
  LET list == IF IsArray(conds) THEN conds.items ELSE <<conds>>
  IN FilterNode(operator, validConditions(list))

isConditionEqual(cond1, cond2) ==
  /\ cond1.type = cond2.type
  /\ cond1.operator = cond2.operator
  /\ cond1.left = cond2.left
  /\ cond1.right = cond2.right

RECURSIVE traverseAndUpdate(_, _)
\* traverseAndUpdate of updateCondition: the updated node and whether a match was found
traverseAndUpdate(node, newCondition) ==
  IF /\ node.type = "expression"
     /\ IsNode(node.left) /\ node.left.type = "expression"
     /\ IsNode(newCondition.left) /\ newCondition.left.type = "expression"
     /\ isConditionEqual(node.left, newCondition.left)
  THEN [node |-> newCondition, matchFound |-> TRUE]
  ELSE LET l == IF IsNode(node.left) /\ node.left.type = "expression"
                THEN traverseAndUpdate(node.left, newCondition)
                ELSE [node |-> node.left, matchFound |-> FALSE]
           r == IF IsNode(node.right) /\ node.right.type = "expression"
                THEN traverseAndUpdate(node.right, newCondition)
                ELSE [node |-> node.right, matchFound |-> FALSE]
       IN [node |-> [node EXCEPT !.left = l.node, !.right = r.node],
           matchFound |-> l.matchFound \/ r.matchFound]

\* updateCondition: the updated tree, or Null when nothing matched
updateCondition(node, newCondition) ==
  LET t == traverseAndUpdate(node, newCondition)
  IN IF t.matchFound THEN t.node ELSE Null

RECURSIVE updateOrAddCondition(_, _, _)
updateOrAddCondition(filter, newCondition, operator) ==
  LET step(condition) ==
        IF condition.type = "filter"
        \* the nested call always returns a fresh object, so
        \* updatedFilter !== condition holds
        THEN [node |-> updateOrAddCondition(condition, newCondition, operator),
              updated |-> TRUE]
        ELSE IF condition.type = "expression"
        THEN LET result == updateCondition(condition, newCondition)
             IN IF result # Null THEN [node |-> result, updated |-> TRUE]
                ELSE [node |-> condition, updated |-> FALSE]
        ELSE [node |-> condition, updated |-> FALSE]
      steps == [i \in 1..Len(filter.conditions) |-> step(filter.conditions[i])]
      updated == \E i \in 1..Len(steps) : steps[i].updated
  IN IF updated
     THEN [filter EXCEPT !.conditions = [i \in 1..Len(steps) |-> steps[i].node]]
     ELSE [filter EXCEPT !.conditions = Append(@, newCondition)]

(***************************************************************************)
(* updateTableNameWithQualifyingDataset (helper/table.ts)                  *)
(***************************************************************************)
\* the last dot-segment of the name after the dataset
qualifyTableName(name, dataset) ==
  dataset \o "." \o Split(name, ".")[Len(Split(name, "."))]
processTable(table, dataset) == [table EXCEPT !.name = qualifyTableName(table.name, dataset)]

\* processExpression that does not enter the expression
processExpressionShallow(expr, dataset) == expr

RECURSIVE processQuery(_, _)
RECURSIVE processExpression(_, _)
RECURSIVE processFilter(_, _)
processExpression(expr, dataset) ==
  [expr EXCEPT
     !.left = IF IsNode(expr.left) /\ expr.left.type = "query"
              THEN processQuery(expr.left, dataset)
              ELSE IF IsNode(expr.left) /\ expr.left.type = "expression"
              THEN processExpression(expr.left, dataset)
              ELSE expr.left,
     !.right = IF IsNode(expr.right) /\ expr.right.type = "query"
               THEN processQuery(expr.right, dataset)
               ELSE IF IsNode(expr.right) /\ expr.right.type = "expression"
               THEN processExpression(expr.right, dataset)
               ELSE expr.right]

processFilter(filter, dataset) ==
  [filter EXCEPT
     !.conditions =
        [i \in 1..Len(filter.conditions) |->
           IF IsNode(filter.conditions[i]) /\ filter.conditions[i].type = "filter"
           THEN processFilter(filter.conditions[i], dataset)
           ELSE IF IsNode(filter.conditions[i]) /\ filter.conditions[i].type = "expression"
           THEN processExpression(filter.conditions[i], dataset)
           ELSE filter.conditions[i]]]

processSubQuery(subquery, dataset) ==
  [subquery EXCEPT !.query = processQuery(subquery.query, dataset)]

processJoin(j, dataset) ==
  [j EXCEPT
     !.table = IF IsNode(j.table) /\ j.table.type = "table" THEN processTable(j.table, dataset)
               ELSE IF IsNode(j.table) /\ j.table.type = "subquery"
               THEN processSubQuery(j.table, dataset)
               ELSE j.table,
     !.on = processExpression(j.on, dataset)]

\* x?.map(f) is undefined when x is undefined or null
processQuery(query, dataset) ==
  [query EXCEPT
     !.from = IF IsString(query.from) THEN S(qualifyTableName(query.from.s, dataset))
              ELSE IF query.from.type = "table" THEN processTable(query.from, dataset)
              ELSE IF query.from.type = "subquery" THEN processSubQuery(query.from, dataset)
              ELSE query.from,
     !.selects = [i \in 1..Len(query.selects) |->
                    IF IsString(query.selects[i]) THEN query.selects[i]
                    ELSE [query.selects[i] EXCEPT
                            !.expression = processExpression(query.selects[i].expression,
                                                             dataset)]],
     !.joins = IF IsArray(query.joins)
               THEN Arr([i \in 1..Len(query.joins.items) |->
                           processJoin(query.joins.items[i], dataset)])
               ELSE Undef,
     !.where = IF Truthy(query.where) THEN processFilter(query.where, dataset) ELSE Undef,
     !.having = IF Truthy(query.having) THEN processFilter(query.having, dataset) ELSE Undef,
     !.qualify = IF Truthy(query.qualify) THEN processFilter(query.qualify, dataset) ELSE Undef,
     !.orderBy = IF IsArray(query.orderBy) THEN query.orderBy ELSE Undef,
     !.with = IF IsArray(query.with)
              THEN Arr([i \in 1..Len(query.with.items) |->
                          [query.with.items[i] EXCEPT
                             !.query = processQuery(query.with.items[i].query, dataset)]])
              ELSE Undef,
     !.unions = IF IsArray(query.unions)
                THEN Arr([i \in 1..Len(query.unions.items) |->
                            [query.unions.items[i] EXCEPT
                               !.query = processQuery(query.unions.items[i].query, dataset)]])
                ELSE Undef]

updateTableNameWithQualifyingDataset(queryNode, dataset) == processQuery(queryNode, dataset)

(***************************************************************************)
(* join helper (helper/join.ts)                                            *)
(***************************************************************************)
join(table, first, operator, second, joinType) ==
  JoinNode(IF joinType # "" THEN joinType ELSE "JOIN",
           IF IsString(table) THEN TableNode(table.s, Undef) ELSE table,
           ExpressionNode(Leaf(S(first)), IF operator # "" THEN operator ELSE "=",
                          Leaf(S(second))))

(***************************************************************************)
(* Bounds and inputs                                                       *)
(***************************************************************************)
\* the largest number of comparisons in an enumerated raw filter tree
MaxLeaves == 3
\* the largest number of entries handed to conditions() / where()
MaxConds == 2
\* the largest number of addParameter calls on one ParameterManager
MaxCalls == 3
\* the datasets handed to updateTableNameWithQualifyingDataset
Datasets == {"analytics", "proj.ds"}
\* the values handed to addParameter
ParameterValues == {N(18), N(0), S("John"), Null}

RawComparison(column, operator, value) ==
  RawBinary(operator, RawColumnRef("", column), value, FALSE)
\* the comparisons of the round-trip test, in source order
Atoms ==
  <<RawComparison("age", ">", RawLiteral("number", N(18))),
    RawComparison("name", "=", RawLiteral("single_quote_string", S("John"))),
    RawComparison("age", "<", RawLiteral("number", N(18))),
    RawComparison("name", "=", RawLiteral("single_quote_string", S("Doe"))),
    RawComparison("age", "=", RawLiteral("number", N(18))),
    RawComparison("name", "=", RawLiteral("single_quote_string", S("Smith")))>>

RECURSIVE TreesWith(_, _)
\* every raw AND/OR tree over the n comparisons Atoms[first], Atoms[first+1], ...
\* in that order, with every placement of the parentheses flag
TreesWith(n, first) ==
  IF n = 1 THEN {Atoms[first]}
  ELSE UNION {{RawBinary(op, l, r, p) :
                 op \in {"AND", "OR"}, p \in BOOLEAN,
                 l \in TreesWith(k, first), r \in TreesWith(n - k, first + k)} :
              k \in 1..(n - 1)}

\* a AND b OR (c AND d OR (e AND f)) as the parser returns it
RoundTripTree ==
  RawBinary("OR",
            RawBinary("AND", Atoms[1], Atoms[2], FALSE),
            RawBinary("OR",
                      RawBinary("AND", Atoms[3], Atoms[4], FALSE),
                      RawBinary("AND", Atoms[5], Atoms[6], TRUE),
                      TRUE),
            FALSE)

FilterTrees == UNION {TreesWith(n, 1) : n \in 1..MaxLeaves} \cup {RoundTripTree}

\* SELECT name, email FROM users
BaseSelect ==
  RawSelect(Arr(<<RawColumn(RawColumnRef("", "name"), Null),
                  RawColumn(RawColumnRef("", "email"), Null)>>),
            Arr(<<RawFrom("users", Null, Undef, Null)>>))

\* SELECT id FROM orders WHERE total > 100
CteSelect ==
  [RawSelect(Arr(<<RawColumn(RawColumnRef("", "id"), Null)>>),
             Arr(<<RawFrom("orders", Null, Undef, Null)>>))
     EXCEPT !.where = RawComparison("total", ">", RawLiteral("number", N(100)))]

\* SELECT name, email FROM users LIMIT 10, without and with ORDER BY name
LimitASTs ==
  {ParsedAST([BaseSelect EXCEPT !.orderby = o,
                                !.limit = Obj([value |-> <<RawLiteral("number", N(10))>>])]) :
     o \in {Null, Arr(<<RawOrder(RawColumnRef("", "name"), "asc")>>)}}

\* SELECT * FROM users, without and with WHERE age > 18
StarASTs ==
  {ParsedAST([RawSelect(Arr(<<RawColumn(RawLiteral("star", S("*")), Null)>>),
                        Arr(<<RawFrom("users", Null, Undef, Null)>>))
                EXCEPT !.where = w]) : w \in {Null, Atoms[1]}}

\* statements whose root is no select node or whose columns are no array
MalformedASTs ==
  {ParsedAST(Null), ParsedAST([BaseSelect EXCEPT !.type = "update"]),
   ParsedAST(Arr(<<[BaseSelect EXCEPT !.type = "insert"]>>)),
   ParsedAST([BaseSelect EXCEPT !.columns = S("*")]),
   ParsedAST([BaseSelect EXCEPT !.columns = Null])}

\* an expression of a type mapExpression has no case for, and a comparison with it
UnsupportedExpr == RawLiteral("cast", S("x"))
UnsupportedComparison == RawBinary(">", UnsupportedExpr, RawLiteral("number", N(1)), FALSE)
\* SELECT name, email FROM users with the unsupported expression in one place:
\* the select list, the WHERE or HAVING filter at some depth, a join condition,
\* a CTE body, the GROUP BY or the ORDER BY
UnsupportedASTs ==
  {ParsedAST([BaseSelect EXCEPT !.columns =
                Arr(<<RawColumn(RawColumnRef("", "name"), Null),
                      RawColumn(UnsupportedExpr, Null)>>)]),
   ParsedAST([BaseSelect EXCEPT !.where = UnsupportedComparison]),
   ParsedAST([BaseSelect EXCEPT !.where = RawBinary("AND", Atoms[1], UnsupportedComparison, FALSE)]),
   ParsedAST([BaseSelect EXCEPT !.where =
                RawBinary("OR", Atoms[1],
                          RawBinary("AND", Atoms[2], UnsupportedComparison, TRUE), FALSE)]),
   ParsedAST([BaseSelect EXCEPT !.having = UnsupportedComparison]),
   ParsedAST([BaseSelect EXCEPT !.from =
                Arr(<<RawFrom("users", Null, Undef, Null),
                      RawFrom("orders", Null, S("LEFT JOIN"),
                              RawBinary("=", RawColumnRef("users", "id"), UnsupportedExpr,
                                        FALSE))>>)]),
   ParsedAST([BaseSelect EXCEPT !.with =
                Arr(<<RawCte("c", ParsedAST([CteSelect EXCEPT !.where = UnsupportedComparison]))>>)]),
   ParsedAST([BaseSelect EXCEPT !.groupby = Obj([columns |-> <<UnsupportedExpr>>])]),
   ParsedAST([BaseSelect EXCEPT !.orderby = Arr(<<RawOrder(UnsupportedExpr, "asc")>>)])}

\* the join tags of the raw from entries, in several spellings
JoinTags == {"LEFT JOIN", "left join", "INNER JOIN", "Right Join"}
RawJoin(table, tag, column) ==
  RawFrom(table, Null, S(tag),
          RawBinary("=", RawColumnRef("users", "id"), RawColumnRef(table, column), FALSE))
\* SELECT name, email FROM users <tag> orders ON users.id = orders.user_id, and
\* the same followed by INNER JOIN logins ON users.id = logins.user_id
JoinASTs ==
  {ParsedAST([BaseSelect EXCEPT !.from =
                Arr(<<RawFrom("users", Null, Undef, Null), RawJoin("orders", t, "user_id")>>
                      \o rest)]) :
     t \in JoinTags, rest \in {<<>>, <<RawJoin("logins", "INNER JOIN", "user_id")>>}}

\* email IS NULL / email IS NOT NULL as an is_expr node and as a binary_expr node
RawIsExpr(column, operator) ==
  [type |-> "is_expr", left |-> RawColumnRef("", column), operator |-> operator,
   right |-> RawLiteral("null", Null)]
NullChecks ==
  {RawIsExpr("email", op) : op \in {"IS", "IS NOT"}}
    \cup {RawComparison("email", op, RawLiteral("null", Null)) : op \in {"IS", "IS NOT"}}
\* SELECT name, email FROM users WHERE <null check>, alone and after age > 18 AND
NullCheckASTs ==
  {ParsedAST([BaseSelect EXCEPT !.where = w]) :
     w \in NullChecks \cup {RawBinary("AND", Atoms[1], n, FALSE) : n \in NullChecks}}

ParsedASTs ==
  {ParsedAST([BaseSelect EXCEPT !.where = t]) : t \in FilterTrees}
    \cup {ParsedAST([BaseSelect EXCEPT !.with = Arr(<<RawCte("c", ParsedAST(CteSelect))>>),
                                       !.where = w]) : w \in {Null, Atoms[1]}}
    \cup {ParsedAST(Arr(<<BaseSelect>>))}
    \cup LimitASTs \cup StarASTs \cup MalformedASTs \cup UnsupportedASTs \cup JoinASTs
    \cup NullCheckASTs

BaseQuery == QueryNode(<<S("name"), S("email")>>, S("users"))
AgeCondition == Condition("age", ">", N(18))
NameCondition == Condition("name", "LIKE", S("John%"))
\* SELECT id FROM orders WHERE total > 100
InnerOrders ==
  [QueryNode(<<S("id")>>, S("orders"))
     EXCEPT !.where = where(conditions(<<Condition("total", ">", N(100))>>, "AND"), "AND")]
\* SELECT id FROM logins WHERE kind = 'web'
InnerLogins ==
  [QueryNode(<<S("id")>>, S("logins"))
     EXCEPT !.where = where(conditions(<<Condition("kind", "=", S("web"))>>, "AND"), "AND")]

\* queries with CTEs and subquery FROM / join targets
NestedQueries ==
  {[BaseQuery EXCEPT !.with = w, !.from = f, !.joins = j, !.where = wh] :
     w \in {Undef, Arr(<<WithNode("c", InnerOrders)>>),
            Arr(<<WithNode("c", InnerOrders), WithNode("d", InnerLogins)>>)},
     f \in {S("users"), SubQueryNode(InnerLogins, S("t"))},
     j \in {Undef,
            Arr(<<join(S("orders"), "users.id", "=", "orders.user_id", "")>>),
            Arr(<<join(SubQueryNode(InnerOrders, S("o")), "users.id", "=", "o.id", "LEFT")>>)},
     wh \in {Undef,
             where(conditions(<<AgeCondition>>, "AND"), "AND"),
             where(conditions(<<AgeCondition, NameCondition>>, "AND"), "AND")}}

\* queries in which every optional clause is absent or present
ClauseQueries ==
  {[BaseQuery EXCEPT !.with = w, !.joins = j, !.where = wh, !.groupBy = g, !.having = h,
                     !.orderBy = o, !.limit = l, !.offset = off] :
     w \in {Undef, Arr(<<WithNode("c", InnerOrders)>>)},
     j \in {Undef, Arr(<<join(S("orders"), "users.id", "=", "orders.user_id", "")>>)},
     wh \in {Undef, where(conditions(<<AgeCondition>>, "AND"), "AND")},
     g \in {Undef, S("name")},
     h \in {Undef, where(conditions(<<Condition("COUNT(*)", ">", N(5))>>, "AND"), "AND")},
     o \in {Undef, Arr(<<orderBy("groupBy", "DESC")>>)},
     l \in {Undef, N(10)},
     off \in {Undef, N(5)}}

\* queries whose list-valued clauses are empty lists
EmptyClauseQueries ==
  {[BaseQuery EXCEPT !.with = w, !.joins = j, !.where = wh, !.groupBy = g, !.orderBy = o,
                     !.limit = l] :
     w \in {Undef, Arr(<<>>)}, j \in {Undef, Arr(<<>>)},
     wh \in {Undef, where(conditions(<<AgeCondition>>, "AND"), "AND")},
     g \in {Undef, Arr(<<>>)}, o \in {Undef, Arr(<<>>)}, l \in {Undef, N(0), N(10)}}

\* queries with a reserved word as a string select item or an unknown operator
InvalidQueries ==
  {[QueryNode(<<S("order"), S("name")>>, S("users")) EXCEPT !.where = wh, !.limit = l] :
     wh \in {Undef, where(conditions(<<Condition("age", "=>", N(18))>>, "AND"), "AND")},
     l \in {Undef, N(10)}}

\* grouped queries: the grouped columns are select items, aliases, or not selected
GroupByQueries ==
  {[QueryNode(sel, S("users")) EXCEPT !.groupBy = g] :
     sel \in {<<S("name"), S("email")>>, <<S("last_name"), S("email")>>,
              <<S("class"), S("base_price")>>,
              <<SelectNode(Leaf(S("name")), S("n")), S("email")>>},
     g \in {S("name"), S("last_name"), S("n"),
            Arr(<<S("class"), S("base_price")>>), Arr(<<S("name"), S("age")>>)}}

\* queries that select a reserved word in some spelling, as a string or as the
\* SelectNode that select() makes of it
KeywordQueries ==
  {QueryNode(<<sel, S("name")>>, S("users")) :
     sel \in UNION {{S(w), select(S(w))} : w \in {"select", "From", "ORDER", "email"}}}

\* queries on a table that no schema of Schemas has
OtherTableQueries ==
  {[QueryNode(<<S("name"), S("email")>>, f) EXCEPT !.where = wh] :
     f \in {S("accounts"), TableNode("accounts", S("a"))},
     wh \in {Undef, where(conditions(<<AgeCondition>>, "AND"), "AND")}}

\* a filter with a nested filter of the same or of the other operator
NestedFilters ==
  {FilterNode(outer, <<conditionExpression(AgeCondition),
                       FilterNode(inner, <<conditionExpression(NameCondition),
                                           conditionExpression(Condition("id", "=", N(7)))>>)>>) :
     outer \in {"AND", "OR"}, inner \in {"AND", "OR"}}
\* grouped queries with such a filter as the WHERE or as the HAVING clause
NestedFilterQueries ==
  {[BaseQuery EXCEPT !.where = f, !.groupBy = S("name"),
                     !.orderBy = Arr(<<orderBy("groupBy", "DESC")>>)] : f \in NestedFilters}
    \cup {[BaseQuery EXCEPT !.having = f, !.groupBy = S("name"),
                            !.orderBy = Arr(<<orderBy("groupBy", "DESC")>>)] :
            f \in NestedFilters}

UnionNode(unionType, query) == [type |-> "union", unionType |-> unionType, query |-> query]
\* queries with qualified table names, union arms, a QUALIFY filter and a
\* scalar subquery as the right operand of a condition
DatasetQueries ==
  {[QueryNode(<<S("name"), select(S("email"))>>, f)
      EXCEPT !.joins = j, !.where = wh, !.unions = u, !.qualify = qf] :
     f \in {S("users"), TableNode("public.users", S("u"))},
     j \in {Undef, Arr(<<join(S("sales.eu.orders"), "u.id", "=", "orders.user_id", "LEFT")>>)},
     wh \in {Undef,
             where(conditions(<<AgeCondition>>, "AND"), "AND"),
             FilterNode("AND", <<ExpressionNode(Leaf(S("id")), "IN", InnerOrders)>>)},
     u \in {Undef, Arr(<<>>), Arr(<<UnionNode("UNION ALL", InnerLogins)>>)},
     qf \in {Undef, where(conditions(<<Condition("rn", "=", N(1))>>, "AND"), "AND")}}

HelperQueries ==
  NestedFilterQueries \cup DatasetQueries \cup NestedQueries \cup ClauseQueries \cup EmptyClauseQueries \cup InvalidQueries
    \cup GroupByQueries \cup OtherTableQueries \cup KeywordQueries

Schemas == {Undef, Schema("users" :> <<"id", "name", "email", "age">>),
            Schema("users" :> <<"id", "name">>)}

\* the condition entries a caller hands to conditions()
ConditionPool ==
  {AgeCondition, NameCondition, Condition("id", "IN", Arr(<<>>)),
   Condition("id", "IN", Arr(<<N(1), N(2)>>)), Condition("email", "=", S("a@b.c"))}
ConditionLists == UNION {[1..n -> ConditionPool] : n \in 0..MaxConds}

(***************************************************************************)
(* State: one QueryBuilder, the caller's current raw tree, filter and      *)
(* query, and the outcome of the last build call.  The caller works on one *)
(* query at a time and discards it before starting the next.               *)
(***************************************************************************)
VARIABLES mode, schema, ast, filter, query, result, manager, calls
vars == <<mode, schema, ast, filter, query, result, manager, calls>>

NoResult == [kind |-> "none"]
IsQuery(q) == IsNode(q) /\ q.type = "query"
IsFilter(f) == IsNode(f) /\ f.type = "filter"
Idle == ast = Undef /\ filter = Undef /\ query = Undef /\ manager = Undef

\* new QueryBuilder(): the mode defaults to NAMED
Init ==
  /\ mode = NAMED
  /\ schema = Undef
  /\ ast = Undef
  /\ filter = Undef
  /\ query = Undef
  /\ result = NoResult
  /\ manager = Undef
  /\ calls = <<>>

SetMode(m) ==
  /\ mode' = m
  /\ result' = NoResult
  /\ UNCHANGED <<schema, ast, filter, query, manager, calls>>

\* the caller picks the schema handed to the next build call
SetSchema(sch) ==
  /\ schema' = sch
  /\ result' = NoResult
  /\ UNCHANGED <<mode, ast, filter, query, manager, calls>>

\* query = new ASTMapper().map(parsedAST)
Map(parsedAST) ==
  /\ Idle
  /\ ast' = parsedAST
  /\ query' = map(parsedAST)
  /\ filter' = Undef
  /\ result' = NoResult
  /\ UNCHANGED <<mode, schema, manager, calls>>

\* the caller writes a QueryNode with the helper constructors
Construct(q) ==
  /\ Idle
  /\ query' = q
  /\ ast' = Undef
  /\ filter' = Undef
  /\ result' = NoResult
  /\ UNCHANGED <<mode, schema, manager, calls>>

\* filter = where([conditions([c1]), conditions([c2]), ...], operator)
WhereEach(conds, operator) ==
  /\ Idle
  /\ filter' = where(Arr([i \in 1..Len(conds) |-> conditions(<<conds[i]>>, "AND")]), operator)
  /\ query' = Undef
  /\ ast' = Undef
  /\ result' = NoResult
  /\ UNCHANGED <<mode, schema, manager, calls>>

\* filter = where(conditions([c1, c2, ...], booleanOperator))
WhereCombined(conds, booleanOperator) ==
  /\ Idle
  /\ Len(conds) > 0
  /\ filter' = where(conditions(conds, booleanOperator), "AND")
  /\ query' = Undef
  /\ ast' = Undef
  /\ result' = NoResult
  /\ UNCHANGED <<mode, schema, manager, calls>>

\* the caller writes a FilterNode with a nested FilterNode by hand
WriteFilter(f) ==
  /\ Idle
  /\ filter' = f
  /\ query' = Undef
  /\ ast' = Undef
  /\ result' = NoResult
  /\ UNCHANGED <<mode, schema, manager, calls>>

\* filter = updateOrAddCondition(filter, conditions([c]))
UpdateOrAddCondition(c) ==
  /\ IsFilter(filter)
  /\ query = Undef
  /\ Len(filter.conditions) <= MaxConds
  /\ filter' = updateOrAddCondition(filter, conditions(<<c>>, "AND"), "AND")
  /\ query' = Undef
  /\ ast' = Undef
  /\ result' = NoResult
  /\ UNCHANGED <<mode, schema, manager, calls>>

\* the caller puts the filter into a query as its WHERE clause
UseAsWhere ==
  /\ IsFilter(filter)
  /\ query' = [BaseQuery EXCEPT !.where = filter]
  /\ result' = NoResult
  /\ UNCHANGED <<mode, schema, ast, filter, manager, calls>>

\* the caller puts the filter into a grouped query as its HAVING clause
UseAsHaving ==
  /\ IsFilter(filter)
  /\ query' = [BaseQuery EXCEPT !.groupBy = S("name"), !.having = filter,
                                !.orderBy = Arr(<<orderBy("groupBy", "DESC")>>)]
  /\ result' = NoResult
  /\ UNCHANGED <<mode, schema, ast, filter, manager, calls>>

\* the caller drops the query it was working on
Discard ==
  /\ ~Idle
  /\ ast' = Undef
  /\ filter' = Undef
  /\ query' = Undef
  /\ result' = NoResult
  /\ manager' = Undef
  /\ calls' = <<>>
  /\ UNCHANGED <<mode, schema>>

\* query = updateTableNameWithQualifyingDataset(query, dataset), for a query
\* the caller wrote with the helper constructors
QualifyDataset(dataset) ==
  /\ IsQuery(query)
  /\ ast = Undef
  /\ filter = Undef
  /\ query' = updateTableNameWithQualifyingDataset(query, dataset)
  /\ result' = NoResult
  /\ UNCHANGED <<mode, schema, ast, filter, manager, calls>>

\* manager = new ParameterManager(m), used by the caller directly
NewParameterManager(m) ==
  /\ Idle
  /\ manager' = ParameterManager(m)
  /\ calls' = <<>>
  /\ result' = NoResult
  /\ UNCHANGED <<mode, schema, ast, filter, query>>

\* manager.addParameter(value); the value and the returned text are recorded
AddParameterCall(value) ==
  /\ manager # Undef
  /\ Len(calls) < MaxCalls
  /\ manager' = AddParameter(manager, value).pm
  /\ calls' = Append(calls, [value |-> value, text |-> AddParameter(manager, value).text])
  /\ UNCHANGED <<mode, schema, ast, filter, query, result>>

\* result = validationPipeline.validate(query, schema): the errors of the three
\* rules, or ok = FALSE when the schema rule throws a TypeError
Validate ==
  /\ IsQuery(query)
  /\ result' = IF SchemaValidatorThrows(query, schema)
                THEN [kind |-> "validate", ok |-> FALSE, errors |-> <<>>]
                ELSE [kind |-> "validate", ok |-> TRUE,
                      errors |-> ValidationPipeline(query, schema)]
  /\ UNCHANGED <<mode, schema, ast, filter, query, manager, calls>>

\* result = queryBuilder.build(query, schema), or the error it throws
Build ==
  /\ IsQuery(query)
  /\ result' = [kind |-> "build"] @@ build(query, schema, mode)
  /\ UNCHANGED <<mode, schema, ast, filter, query, manager, calls>>

Next ==
  \/ \E m \in QueryBuilderMode : SetMode(m)
  \/ \E sch \in Schemas : SetSchema(sch)
  \/ \E p \in ParsedASTs : Map(p)
  \/ \E q \in HelperQueries : Construct(q)
  \/ \E conds \in ConditionLists, operator \in {"AND", "OR"} : WhereEach(conds, operator)
  \/ \E conds \in ConditionLists, operator \in {"AND", "OR"} : WhereCombined(conds, operator)
  \/ \E f \in NestedFilters : WriteFilter(f)
  \/ \E c \in ConditionPool : UpdateOrAddCondition(c)
  \/ \E m \in QueryBuilderMode : NewParameterManager(m)
  \/ \E value \in ParameterValues : AddParameterCall(value)
  \/ \E dataset \in Datasets : QualifyDataset(dataset)
  \/ UseAsWhere
  \/ UseAsHaving
  \/ Validate
  \/ Build
  \/ Discard

Spec == Init /\ [][Next]_vars

TypeOK ==
  /\ mode \in QueryBuilderMode
  /\ schema \in Schemas
  /\ result.kind \in {"none", "validate", "build"}
(***************************************************************************)
(* Properties                                                              *)
(***************************************************************************)
\* the last build call returned a result
Built == result.kind = "build" /\ result.ok
\* the last build call threw
BuildFailed == result.kind = "build" /\ ~result.ok
Count(s, sub) == Cardinality(Occurrences(s, sub))
\* the raw WHERE tree of the parsed statement the query was mapped from
RawWhere == IF ast # Undef /\ IsNode(ast.ast) THEN ast.ast.where ELSE Null

RoundTripText ==
  "SELECT name, email FROM users WHERE (age > 18 AND name = 'John')"
    \o " OR (age < 18 AND name = 'Doe') OR (age = 18 AND name = 'Smith')"

IsRawComparison(node) == node.type = "binary_expr" /\ node.operator \notin {"AND", "OR"}
IsRawPair(node, operator) ==
  /\ node.type = "binary_expr" /\ node.operator = operator /\ ~node.parentheses
  /\ IsRawComparison(node.left) /\ IsRawComparison(node.right)
\* three comparisons chained by one logical operator, with no parentheses
IsRawChainOfThree(node) ==
  /\ IsNode(node) /\ node.type = "binary_expr"
  /\ node.operator \in {"AND", "OR"} /\ ~node.parentheses
  /\ \/ IsRawPair(node.left, node.operator) /\ IsRawComparison(node.right)
     \/ IsRawComparison(node.left) /\ IsRawPair(node.right, node.operator)

\* C2: a raw filter of three comparisons chained by the same logical operator
\* without parentheses maps to one FilterNode whose conditions sequence has
\* length 3 and holds the three comparison ExpressionNodes themselves.
C2_ChainFlattened ==
  (IsRawChainOfThree(RawWhere) /\ IsQuery(query))
    => /\ IsFilter(query.where)
       /\ Len(query.where.conditions) = 3
       /\ \A i \in 1..Len(query.where.conditions) :
            query.where.conditions[i].type = "expression"

\* the query owns a nested query: a CTE, a subquery FROM or a subquery join target
HasNestedQuery(q) ==
  \/ IsArray(q.with) /\ Len(q.with.items) > 0
  \/ IsNode(q.from) /\ q.from.type = "subquery"
  \/ /\ IsArray(q.joins)
     /\ \E i \in 1..Len(q.joins.items) : q.joins.items[i].table.type = "subquery"

\* C3: in NAMED mode, for a query that owns nested queries, every placeholder
\* occurs once in the text (no two literal occurrences share a name) and every
\* placeholder in the text is a key of the returned parameters.
C3_NumberingContinuous ==
  (mode = NAMED /\ Built /\ IsQuery(query) /\ HasNestedQuery(query))
    => \A i \in 1..Count(result.query, "@param") :
         /\ Count(result.query, "@" \o ParamName(i)) = 1
         /\ \E k \in 1..Len(result.parameters.names) :
              result.parameters.names[k] = ParamName(i)
IsLogical(c) == c.type = "expression" /\ c.operator \in {"AND", "OR"} /\ IsNode(c.left)
\* a comparison of a column with a string or number literal: column op literal
IsLiteralComparison(c) ==
  /\ c.type = "expression" /\ c.operator # NoOperator
  /\ IsNode(c.left) /\ c.left.type = "expression" /\ IsString(c.left.left)
  /\ IsNode(c.right) /\ c.right.type = "expression"
  /\ (IsString(c.right.left) \/ IsNumber(c.right.left))

RECURSIVE ComparesLiterals(_)
\* every comparison under the condition compares a column with a literal
ComparesLiterals(c) ==
  IF c.type = "filter"
  THEN \A i \in 1..Len(c.conditions) : ComparesLiterals(c.conditions[i])
  ELSE IF IsLogical(c) THEN ComparesLiterals(c.left) /\ ComparesLiterals(c.right)
  ELSE IsLiteralComparison(c)

RECURSIVE LiteralsOf(_)
\* the literals of the comparisons under the condition, left to right
LiteralsOf(c) ==
  IF c.type = "filter"
  THEN Flatten([i \in 1..Len(c.conditions) |-> LiteralsOf(c.conditions[i])])
  ELSE IF IsLogical(c) THEN LiteralsOf(c.left) \o LiteralsOf(c.right)
  ELSE <<c.right.left>>

NoJoins(q) == q.joins = Undef \/ (IsArray(q.joins) /\ Len(q.joins.items) = 0)
\* no nested query, no join, and WHERE / HAVING compare columns with literals
IsLiteralQuery(q) ==
  /\ ~HasNestedQuery(q) /\ NoJoins(q)
  /\ IsFilter(q.where) => ComparesLiterals(q.where)
  /\ IsFilter(q.having) => ComparesLiterals(q.having)
QueryLiterals(q) ==
  (IF IsFilter(q.where) THEN LiteralsOf(q.where) ELSE <<>>)
    \o (IF IsFilter(q.having) THEN LiteralsOf(q.having) ELSE <<>>)

RECURSIVE Substitute(_, _, _)
\* text with the first occurrence of names[i] replaced by texts[i], for i = 1, 2, ...
Substitute(text, names, texts) ==
  IF Len(names) = 0 THEN text
  ELSE Substitute(Replace(text, names[1], texts[1]), Tail(names), Tail(texts))
Position(text, sub) == CHOOSE i \in Occurrences(text, sub) : TRUE
Placeholders(k) == [i \in 1..k |-> "@" \o ParamName(i)]

RECURSIVE LeftOperands(_)
\* the column operands of the comparisons under the condition
LeftOperands(c) ==
  IF c.type = "filter"
  THEN UNION {LeftOperands(c.conditions[i]) : i \in 1..Len(c.conditions)}
  ELSE IF IsLogical(c) THEN LeftOperands(c.left) \cup LeftOperands(c.right)
  ELSE IF IsNode(c.left) /\ IsString(c.left.left) THEN {c.left.left}
  ELSE {}
\* the column references of the query: select columns, the left operands of
\* its comparisons and both operands of its join conditions
ColumnReferences(q) ==
  {select(q.selects[i]).expression.left : i \in 1..Len(q.selects)}
    \cup (IF IsFilter(q.where) THEN LeftOperands(q.where) ELSE {})
    \cup (IF IsFilter(q.having) THEN LeftOperands(q.having) ELSE {})
    \cup (IF IsArray(q.joins)
          THEN UNION {{q.joins.items[i].on.left.left, q.joins.items[i].on.right.left} :
                        i \in 1..Len(q.joins.items)}
          ELSE {})
JoinConditionText(j) == Str(j.on.left.left) \o " " \o j.on.operator \o " " \o Str(j.on.right.left)

\* C5: in NAMED and POSITIONAL mode no column reference is among the returned
\* parameters, and a join condition between two columns is in the text verbatim.
C5_ColumnsNeverParameterized ==
  (mode \in {NAMED, POSITIONAL} /\ Built /\ IsQuery(query))
    => /\ \A k \in 1..Len(result.parameters.values) :
            result.parameters.values[k] \notin ColumnReferences(query)
       /\ IsArray(query.joins) =>
            \A i \in 1..Len(query.joins.items) :
              Contains(result.query, JoinConditionText(query.joins.items[i]))

\* C6: in SIMPLE mode build returns no parameters and a text without @paramN
\* or ? placeholders; for a query without nested queries the text is the NAMED
\* text with every placeholder replaced by its literal.
C6_SimpleInlines ==
  (mode = SIMPLE /\ Built /\ IsQuery(query))
    => /\ result.parameters = Undef
       /\ ~Contains(result.query, "@param")
       /\ ~Contains(result.query, "?")
       /\ ~HasNestedQuery(query) =>
            LET named == build(query, schema, NAMED)
            IN /\ named.ok
               /\ result.query =
                    Substitute(named.query,
                               [i \in 1..Len(named.parameters.names) |->
                                  "@" \o named.parameters.names[i]],
                               [i \in 1..Len(named.parameters.values) |->
                                  Str(named.parameters.values[i])])
C6_Witness ==
  /\ mode = SIMPLE /\ Built /\ IsQuery(query)
  /\ result.parameters = Undef
  /\ result.query = "SELECT name, email FROM users WHERE age > 18 AND name LIKE 'John%'"
\* the line of one validation error in the message of the thrown error
ErrorLine(e) == "- " \o e.message \o " (Location: " \o e.location \o ")"

FieldPresent(v) == v # Undef /\ (IsArray(v) => Len(v.items) > 0)
FilterPresent(f) == IsFilter(f) /\ Len(f.conditions) > 0
NonEmpty(str) == str # ""
\* the keywords that open the clauses, in the documented order
ClauseKeywords ==
  <<"WITH ", "SELECT ", " FROM ", " JOIN ", " WHERE ", " GROUP BY ", " HAVING ",
    " ORDER BY ", " LIMIT ", " OFFSET ">>
ClauseInQuery(q) ==
  <<FieldPresent(q.with), TRUE, TRUE, FieldPresent(q.joins), FilterPresent(q.where),
    FieldPresent(q.groupBy), FilterPresent(q.having), FieldPresent(q.orderBy),
    FieldPresent(q.limit), FieldPresent(q.offset)>>
\* how often the keyword of each clause is in the text: once for a clause that
\* is in q, once per join for the joins
KeywordCount(q) ==
  [i \in 1..Len(ClauseKeywords) |->
     IF ~ClauseInQuery(q)[i] THEN 0
     ELSE IF ClauseKeywords[i] = " JOIN " THEN Len(q.joins.items)
     ELSE 1]
\* the text of each clause of q on its own, in SIMPLE mode, "" for a clause not in q
ClauseTexts(q) ==
  LET pm == ParameterManager(SIMPLE)
  IN <<IF FieldPresent(q.with) THEN buildWithClause(q.with.items, SIMPLE).text ELSE "",
       "SELECT " \o buildSelectClause(q.selects, pm).text,
       buildFromClause(q.from, SIMPLE).text,
       IF FieldPresent(q.joins)
       THEN JoinStr(buildJoinClause(q.joins.items, pm, SIMPLE).texts, " ") ELSE "",
       IF FilterPresent(q.where) THEN buildWhereClause(q.where, pm).text ELSE "",
       IF FieldPresent(q.groupBy) THEN buildGroupByClause(q.groupBy) ELSE "",
       IF FilterPresent(q.having) THEN buildHavingClause(q.having, pm).text ELSE "",
       IF FieldPresent(q.orderBy) THEN buildOrderByClause(q.orderBy.items) ELSE "",
       IF FieldPresent(q.limit) THEN buildLimitClause(q.limit) ELSE "",
       IF FieldPresent(q.offset) THEN buildOffsetClause(q.offset) ELSE "">>

\* C8: the built text is the texts of the clauses that are in the query, in the
\* order WITH, SELECT, FROM, joins, WHERE, GROUP BY, HAVING, ORDER BY, LIMIT,
\* OFFSET, joined by single spaces; a clause whose field is absent or an empty
\* sequence contributes nothing.
C8_ClauseOrder ==
  (Built /\ IsQuery(query))
    => /\ mode = SIMPLE =>
            result.query = JoinStr(SelectSeq(ClauseTexts(query), NonEmpty), " ")
       /\ ~Contains(result.query, "  ")
       /\ ~HasNestedQuery(query) =>
            /\ \A i \in 1..Len(ClauseKeywords) :
                 Count(result.query, ClauseKeywords[i]) = KeywordCount(query)[i]
            /\ \A i, j \in 1..Len(ClauseKeywords) :
                 (i < j /\ ClauseInQuery(query)[i] /\ ClauseInQuery(query)[j])
                   => Position(result.query, ClauseKeywords[i])
                        < Position(result.query, ClauseKeywords[j])
C8_Witness ==
  /\ Built /\ IsQuery(query)
  /\ query.orderBy = Arr(<<>>) /\ query.limit = N(10)
  /\ mode = SIMPLE
  /\ result.query = "SELECT name, email FROM users WHERE age > 18 LIMIT 10"

IsEmptyIn(c) ==
  /\ c.type = "expression" /\ c.operator = "IN"
  /\ IsNode(c.right) /\ c.right.left = S("()")
RECURSIVE InConditions(_, _)
\* the number of IN conditions under the condition, counting those with an empty
\* value list (empty = TRUE) or those with a non-empty one (empty = FALSE)
InConditions(c, empty) ==
  IF c.type = "filter"
  THEN LET counts == [i \in 1..Len(c.conditions) |-> <<InConditions(c.conditions[i], empty)>>]
       IN Len(Flatten([i \in 1..Len(counts) |-> [j \in 1..counts[i][1] |-> 0]]))
  ELSE IF IsLogical(c) THEN InConditions(c.left, empty) + InConditions(c.right, empty)
  ELSE IF c.operator = "IN" /\ (IsEmptyIn(c) <=> empty) THEN 1
  ELSE 0
InClauses(q, empty) ==
  (IF IsFilter(q.where) THEN InConditions(q.where, empty) ELSE 0)
    + (IF IsFilter(q.having) THEN InConditions(q.having, empty) ELSE 0)

\* C9: when the WHERE or HAVING of the query holds an IN condition with an
\* empty value list, at any position, the built text has no IN () and nothing
\* of that condition: its only IN conditions are those with a non-empty list.
C9_EmptyInElided ==
  (Built /\ IsQuery(query) /\ InClauses(query, TRUE) > 0)
    => /\ ~Contains(result.query, "IN ()")
       /\ Count(result.query, " IN ") = InClauses(query, FALSE)

RECURSIVE FiltersNonEmpty(_)
\* the FilterNode and every FilterNode nested in it has a condition
FiltersNonEmpty(f) ==
  IF f.type = "filter"
  THEN /\ Len(f.conditions) > 0
       /\ \A i \in 1..Len(f.conditions) : FiltersNonEmpty(f.conditions[i])
  ELSE TRUE

\* C10: every FilterNode returned by where(), by updateOrAddCondition or by
\* ASTMapper has a non-empty conditions sequence.
C10_FilterNonEmpty ==
  /\ IsFilter(filter) => FiltersNonEmpty(filter)
  /\ (ast # Undef /\ IsQuery(query) /\ IsFilter(query.where)) => FiltersNonEmpty(query.where)

\* the last call of the validation pipeline returned its list of errors
Validated == result.kind = "validate" /\ result.ok /\ IsQuery(query)
\* the positions of the errors located at a clause
ErrorsAt(errors, location) == {i \in 1..Len(errors) : errors[i].location = location}
\* the columns the query groups by, none when the clause is absent
GroupByColumns(q) == groupBy(IF Truthy(q.groupBy) THEN q.groupBy ELSE Arr(<<>>)).columns

\* C11: the validation reports a HAVING error exactly when the query has a
\* having clause and groups by no column; in particular a query with a HAVING
\* clause and a GROUP BY gets no HAVING error.
C11_HavingRequiresGroupBy ==
  Validated
    => (ErrorsAt(result.errors, "HAVING") # {}
          <=> (Truthy(query.having) /\ Len(GroupByColumns(query)) = 0))

\* C12: the validation reports a LIMIT error exactly when the query has a limit,
\* whatever its value, and no ORDER BY entry (orderBy absent or an empty
\* sequence).
C12_LimitRequiresOrderBy ==
  Validated
    => (ErrorsAt(result.errors, "LIMIT") # {}
          <=> (query.limit # Undef /\ ~FieldPresent(query.orderBy)))

\* the select items of the query as SelectNodes
NormalizedSelects(q) == [i \in 1..Len(q.selects) |-> select(q.selects[i])]
\* the aliases and the expression keys of the select items
SelectKeys(q) ==
  UNION {{NormalizedSelects(q)[i].alias, NormalizedSelects(q)[i].expression.left} :
           i \in 1..Len(q.selects)}
\* the positions of the grouped columns that are no alias and no key of a select item
UnselectedGroupBy(q) ==
  {i \in 1..Len(GroupByColumns(q)) : GroupByColumns(q)[i] \notin SelectKeys(q)}

\* C13: the validation reports one GROUP BY error for each grouped column that
\* is neither the alias nor the expression key of a select item, and none for a
\* grouped column that is a select item, whatever its name.
C13_GroupByMatchesSelect ==
  Validated
    => Cardinality(ErrorsAt(result.errors, "GROUP BY")) = Cardinality(UnselectedGroupBy(query))

\* the schema handed to the validation has the table the query selects from
SchemaHasFromTable(q, sch) ==
  /\ Truthy(sch) /\ checkIsFromTable(from(q.from))
  /\ from(q.from).name \in DOMAIN sch.tables
TableColumns(q, sch) == sch.tables[from(q.from).name]
MissingColumnMessage(column, q) ==
  "Column '" \o column \o "' does not exist in table '" \o from(q.from).name \o "'."
\* the positions of the select items whose column is not a column of the table
MissingSelects(q, sch) ==
  {i \in 1..Len(q.selects) :
     /\ IsString(NormalizedSelects(q)[i].expression.left)
     /\ ~includes(TableColumns(q, sch), NormalizedSelects(q)[i].expression.left.s)}
\* the positions of the missing-column errors located at a clause
ColumnErrors(errors, location) ==
  {k \in ErrorsAt(errors, location) : Contains(errors[k].message, "' does not exist in table '")}

MissingWhereColumns(q, sch) ==
  IF IsFilter(q.where)
  THEN {c.s : c \in {l \in LeftOperands(q.where) : ~includes(TableColumns(q, sch), l.s)}}
  ELSE {}

\* C15: with a schema that has the FROM table, the missing-column errors
\* located at WHERE name exactly the column references of the where conditions
\* that are not columns of the table; a literal operand is never reported.
C15_WhereColumnsInSchema ==
  (Validated /\ SchemaHasFromTable(query, schema))
    => {result.errors[k].message : k \in ColumnErrors(result.errors, "WHERE")}
         = {MissingColumnMessage(c, query) : c \in MissingWhereColumns(query, schema)}

\* the schema handed to the validation lacks the table the query selects from
SchemaLacksFromTable(q, sch) ==
  /\ Truthy(sch) /\ checkIsFromTable(from(q.from))
  /\ from(q.from).name \notin DOMAIN sch.tables
\* the positions of the errors the schema rule can report
SchemaErrors(errors) ==
  ErrorsAt(errors, "FROM") \cup ColumnErrors(errors, "SELECT") \cup ColumnErrors(errors, "WHERE")

\* C16: without a schema the validation reports no error of the schema rule;
\* with a schema that lacks the query's primary table it reports exactly one
\* error located at FROM, naming the table, and no missing-column error.
C16_SchemaTableExists ==
  Validated
    => /\ schema = Undef => SchemaErrors(result.errors) = {}
       /\ SchemaLacksFromTable(query, schema) =>
            /\ Cardinality(ErrorsAt(result.errors, "FROM")) = 1
            /\ \A k \in ErrorsAt(result.errors, "FROM") :
                 result.errors[k].message
                   = "Table '" \o from(query.from).name \o "' does not exist in the schema."
            /\ SchemaErrors(result.errors) = ErrorsAt(result.errors, "FROM")
C16_Witness ==
  /\ Validated /\ SchemaLacksFromTable(query, schema)
  /\ IsFilter(query.where)
  /\ Len(result.errors) = 1
  /\ result.errors[1].location = "FROM"
  /\ result.errors[1].message = "Table 'accounts' does not exist in the schema."

\* the positions of the select items whose column is a reserved word in any case
ReservedSelects(q) ==
  {i \in 1..Len(q.selects) :
     /\ IsString(NormalizedSelects(q)[i].expression.left)
     /\ toUpperCase(NormalizedSelects(q)[i].expression.left.s) \in reservedKeywords}
ReservedErrors(errors) ==
  {k \in ErrorsAt(errors, "SELECT") : Contains(errors[k].message, "' is a reserved SQL keyword.")}

\* C17: the validation reports one reserved-keyword error located at SELECT for
\* each select item whose column is a reserved SQL keyword in any spelling of
\* case, naming the column as written, and none for any other select item.
C17_ReservedKeywords ==
  Validated
    => /\ Cardinality(ReservedErrors(result.errors)) = Cardinality(ReservedSelects(query))
       /\ \A i \in ReservedSelects(query) :
            \E k \in ReservedErrors(result.errors) :
              result.errors[k].message
                = "Column name '" \o NormalizedSelects(query)[i].expression.left.s
                    \o "' is a reserved SQL keyword."

\* the select list of the query is the star SelectNode ASTMapper makes of SELECT *
IsStarQuery(q) ==
  /\ IsQuery(q) /\ Len(q.selects) = 1
  /\ q.selects[1] = SelectNode(Leaf(S("*")), Undef)
StarText(q) == "SELECT * FROM " \o from(q.from).name

\* C18: a query whose select list is the star passes validation, and build
\* returns a text that starts with SELECT * FROM and the table.
C18_StarSelectBuilds ==
  IsStarQuery(query)
    => /\ Validated => result.errors = <<>>
       /\ result.kind = "build" =>
            /\ result.ok
            /\ SubSeq(result.query, 1, Len(StarText(query))) = StarText(query)

\* the expression types mapExpression has a case for
SupportedExpressionTypes ==
  {"column_ref", "binary_expr", "function", "case", "star", "interval", "is_expr",
   "aggr_func", "expr_list", "single_quote_string", "null", "number", "string"}
RECURSIVE RawUnsupported(_)
\* the raw expression, or an operand of it, has an unsupported type
RawUnsupported(expr) ==
  IF ~IsNode(expr) THEN FALSE
  ELSE IF expr.type \notin SupportedExpressionTypes THEN TRUE
  ELSE IF expr.type \in {"binary_expr", "is_expr"}
  THEN RawUnsupported(expr.left) \/ RawUnsupported(expr.right)
  ELSE IF expr.type = "expr_list"
  THEN \E i \in 1..Len(expr.value) : RawUnsupported(expr.value[i])
  ELSE FALSE
\* the statement ASTMapper.map works on: the first element of an array
RootOf(parsedAST) ==
  IF IsArray(parsedAST.ast)
  THEN IF Len(parsedAST.ast.items) > 0 THEN parsedAST.ast.items[1] ELSE Undef
  ELSE parsedAST.ast
RECURSIVE MustFail(_)
\* the root is no select node, the columns are no array, or an expression of
\* the statement or of one of its CTE bodies has an unsupported type
MustFail(parsedAST) ==
  LET root == RootOf(parsedAST)
  IN \/ ~(IsNode(root) /\ root.type = "select")
     \/ ~IsArray(root.columns)
     \/ \E i \in 1..Len(root.columns.items) : RawUnsupported(root.columns.items[i].expr)
     \/ RawUnsupported(root.where)
     \/ RawUnsupported(root.having)
     \/ \E i \in 2..Len(root.from.items) : RawUnsupported(root.from.items[i].on)
     \/ /\ root.groupby # Null
        /\ \E i \in 1..Len(root.groupby.columns) : RawUnsupported(root.groupby.columns[i])
     \/ /\ root.orderby # Null
        /\ \E i \in 1..Len(root.orderby.items) : RawUnsupported(root.orderby.items[i].expr)
     \/ /\ root.with # Null
        /\ \E i \in 1..Len(root.with.items) : MustFail(root.with.items[i].stmt)
RECURSIVE ExpressionMapped(_)
\* no failed step is left in the mapped expression or filter
ExpressionMapped(e) ==
  IF ~IsNode(e) THEN TRUE
  ELSE IF IsThrow(e) THEN FALSE
  ELSE IF e.type = "filter"
  THEN \A i \in 1..Len(e.conditions) : ExpressionMapped(e.conditions[i])
  ELSE IF e.type = "expression" THEN ExpressionMapped(e.left) /\ ExpressionMapped(e.right)
  ELSE TRUE
RECURSIVE QueryMapped(_)
\* the value is a QueryNode every part of which was mapped
QueryMapped(q) ==
  /\ IsQuery(q)
  /\ \A i \in 1..Len(q.selects) :
       /\ q.selects[i].type = "select"
       /\ q.selects[i].expression.type = "expression"
       /\ ExpressionMapped(q.selects[i].expression)
  /\ q.from.type = "table"
  /\ \A i \in 1..Len(q.joins.items) :
       /\ q.joins.items[i].type = "join"
       /\ ExpressionMapped(q.joins.items[i].on)
  /\ ExpressionMapped(q.where)
  /\ ExpressionMapped(q.having)
  /\ ExpressionMapped(q.groupBy)
  /\ \A i \in 1..Len(q.orderBy.items) : q.orderBy.items[i].type = "orderby"
  /\ \A i \in 1..Len(q.with.items) :
       /\ q.with.items[i].type = "with"
       /\ QueryMapped(q.with.items[i].query)

CanonicalJoinKind(tag) == toUpperCase(Split(tag, " ")[1])
\* the raw from entries after the primary table
RawJoins(parsedAST) == Tail(RootOf(parsedAST).from.items)

\* C20: ASTMapper maps each raw from entry after the primary table to one
\* JoinNode, in source order, whose joinType is the kind the raw join tag names
\* in any spelling; the built text names the same kind before the joined table.
C20_JoinsNormalized ==
  (ast # Undef /\ IsQuery(query))
    => /\ Len(query.joins.items) = Len(RawJoins(ast))
       /\ \A i \in 1..Len(RawJoins(ast)) :
            /\ query.joins.items[i].table.name = RawJoins(ast)[i].table
            /\ query.joins.items[i].joinType = CanonicalJoinKind(RawJoins(ast)[i].join.s)
            /\ Built => Contains(result.query,
                                 CanonicalJoinKind(RawJoins(ast)[i].join.s) \o " JOIN "
                                   \o RawJoins(ast)[i].table \o " ON ")
\* the operator conditions of a filter, at every depth
RECURSIVE OperatorConditions(_)
OperatorConditions(f) ==
  IF ~IsNode(f) THEN {}
  ELSE IF f.type = "filter"
  THEN UNION {OperatorConditions(f.conditions[i]) : i \in 1..Len(f.conditions)}
  ELSE IF f.type = "expression" /\ f.operator # NoOperator THEN {f}
  ELSE {}
\* the text of an operand in SIMPLE mode: a column name as it is, the null
\* literal as NULL, another literal through valueWrapper
OperandText(v) ==
  IF IsNode(v) /\ v.type = "expression" THEN
    IF v.left = Null THEN "NULL" ELSE IF IsString(v.left) THEN v.left.s
    ELSE Str(valueWrapper(v.left))
  ELSE IF v = Null THEN "NULL"
  ELSE IF IsString(v) THEN v.s
  ELSE Str(valueWrapper(v))

\* C21: every condition with an operator in the WHERE filter of a mapped query
\* is rendered as left, operator, right; a mapped IS NULL / IS NOT NULL
\* condition keeps its operator and the keyword NULL.
C21_OperatorRendered ==
  (Built /\ mode = SIMPLE /\ ast # Undef /\ IsQuery(query))
    => \A c \in OperatorConditions(query.where) :
         Contains(result.query,
                  OperandText(c.left) \o " " \o c.operator \o " " \o OperandText(c.right))
\* the condition text buildWhereClause gives for a filter in SIMPLE mode: the
\* clause without its leading keyword
WhereConditionText(f) ==
  Bind(buildWhereClause(f, ParameterManager(SIMPLE)).text, LAMBDA clause :
    SubSeq(clause, Len("WHERE ") + 1, Len(clause)))

\* C22: a filter used as the HAVING clause is rendered with the condition text
\* it has as a WHERE clause: conditions joined by the filter's operator, a
\* nested filter in parentheses exactly when its operator differs from its
\* parent's.
C22_HavingAsWhere ==
  (Built /\ mode = SIMPLE /\ IsQuery(query) /\ FilterPresent(query.having))
    => Contains(result.query, "HAVING " \o WhereConditionText(query.having))
\* some condition of the filter, at any depth, has the new condition's left operand
RECURSIVE HasMatch(_, _)
HasMatch(f, newCondition) ==
  \E i \in 1..Len(f.conditions) :
    IF f.conditions[i].type = "filter" THEN HasMatch(f.conditions[i], newCondition)
    ELSE updateCondition(f.conditions[i], newCondition) # Null
\* what the claim says of one call: a match keeps the number of top-level
\* conditions, no match appends the new condition once, as the last one
UpdatedOrAdded(before, newCondition, after) ==
  /\ after.type = "filter" /\ after.operator = before.operator
  /\ IF HasMatch(before, newCondition)
     THEN Len(after.conditions) = Len(before.conditions)
     ELSE after.conditions = Append(before.conditions, newCondition)

\* C23: updateOrAddCondition(filter, c) replaces the matching condition and
\* keeps the number of top-level conditions, or, when nothing matches, appends
\* c exactly once as the last top-level condition and changes nothing else,
\* also when the filter has nested filters.
C23_UpdateOrAdd ==
  [][\A c \in ConditionPool :
       UpdateOrAddCondition(c) => UpdatedOrAdded(filter, conditionExpression(c), filter')]_vars
Larger(a, b) == IF a >= b THEN a ELSE b
RECURSIVE LargestOf(_)
\* the largest number of a sequence of naturals, 0 for the empty sequence
LargestOf(ns) == IF Len(ns) = 0 THEN 0 ELSE Larger(Head(ns), LargestOf(Tail(ns)))

RECURSIVE RawDepth(_)
\* the nesting depth of a raw statement or expression: the number of nested
\* calls of map / processNode / mapExpression it takes to reach its deepest leaf
RawDepth(node) ==
  IF IsArray(node) THEN LargestOf([i \in 1..Len(node.items) |-> RawDepth(node.items[i])])
  ELSE IF ~IsNode(node) THEN 0
  ELSE IF node.type = "select"
  THEN 1 + Larger(Larger(RawDepth(node.where), RawDepth(node.having)),
                  IF IsArray(node.with)
                  THEN LargestOf([i \in 1..Len(node.with.items) |->
                                    RawDepth(node.with.items[i].stmt.ast)])
                  ELSE 0)
  ELSE IF node.type \in {"binary_expr", "is_expr"}
  THEN 1 + Larger(RawDepth(node.left), RawDepth(node.right))
  ELSE 1

RECURSIVE QueryDepth(_)
\* the nesting depth of a query or of one of its nodes: the number of nested
\* calls of buildQuery / buildCondition / buildExpression it takes to reach its
\* deepest leaf
QueryDepth(node) ==
  IF IsArray(node) THEN LargestOf([i \in 1..Len(node.items) |-> QueryDepth(node.items[i])])
  ELSE IF ~IsNode(node) THEN 0
  ELSE IF node.type = "query"
  THEN 1 + LargestOf(<<QueryDepth(node.with), QueryDepth(node.from), QueryDepth(node.joins),
                       QueryDepth(node.where), QueryDepth(node.having)>>)
  ELSE IF node.type = "with" THEN QueryDepth(node.query)
  ELSE IF node.type = "subquery" THEN QueryDepth(node.query)
  ELSE IF node.type = "join" THEN Larger(QueryDepth(node.table), QueryDepth(node.on))
  ELSE IF node.type = "filter"
  THEN 1 + LargestOf([i \in 1..Len(node.conditions) |-> QueryDepth(node.conditions[i])])
  ELSE IF node.type = "expression"
  THEN 1 + Larger(QueryDepth(node.left), QueryDepth(node.right))
  ELSE 0

DepthExceededError == "DepthExceededError"

\* C24: for a maximum recursion depth the caller has configured, map of a raw
\* statement nested deeper than the maximum fails with a DepthExceededError,
\* and so does build of a query nested deeper than the maximum.
C24_DepthBounded ==
  \A maximum \in 1..MaxLeaves :
    /\ (ast # Undef /\ RawDepth(ast.ast) > maximum)
         => IsThrow(query) /\ Contains(query.message, DepthExceededError)
    /\ (result.kind = "build" /\ IsQuery(query) /\ QueryDepth(query) > maximum)
         => ~result.ok /\ Contains(result.message, DepthExceededError)
\* C27: after k addParameter calls on one ParameterManager, in NAMED mode the
\* i-th call returned @param<i> and getParameters() has exactly the keys
\* param1..paramk, param<i> holding the i-th value; in POSITIONAL mode every
\* call returned ? and getParameters() is the k values in call order; the
\* counter has advanced once per call and no earlier entry was overwritten.
C27_ParameterManagerCalls ==
  manager # Undef =>
    /\ manager.mode = NAMED =>
         /\ \A i \in 1..Len(calls) : calls[i].text = "@" \o ParamName(i)
         /\ GetParameters(manager).kind = "record"
         /\ GetParameters(manager).names = [i \in 1..Len(calls) |-> ParamName(i)]
         /\ GetParameters(manager).values = [i \in 1..Len(calls) |-> calls[i].value]
         /\ manager.paramIndex = Len(calls) + 1
    /\ manager.mode = POSITIONAL =>
         /\ \A i \in 1..Len(calls) : calls[i].text = "?"
         /\ GetParameters(manager).kind = "list"
         /\ GetParameters(manager).values = [i \in 1..Len(calls) |-> calls[i].value]
         /\ manager.paramIndex = Len(calls) + 1
\* a POSITIONAL manager after three calls, the first two with the same value
C27_Witness ==
  /\ manager # Undef /\ manager.mode = POSITIONAL
  /\ Len(calls) >= 3 /\ calls[1].value = calls[2].value /\ calls[3].value # calls[1].value
(***************************************************************************)
(* Reading a condition text with SQL precedence: AND binds tighter than    *)
(* OR, parentheses group.  A comparison is true when its text is in the    *)
(* set of true comparisons.                                                *)
(***************************************************************************)
RECURSIVE ReplaceAll(_, _, _)
ReplaceAll(str, pattern, replacement) ==
  IF Contains(str, pattern) THEN ReplaceAll(Replace(str, pattern, replacement), pattern, replacement)
  ELSE str
Marks == {"(", ")", "&", "|"}
\* the length of the longest prefix of str without a mark
RECURSIVE PrefixLength(_)
PrefixLength(str) ==
  IF str = "" \/ SubSeq(str, 1, 1) \in Marks THEN 0
  ELSE 1 + PrefixLength(SubSeq(str, 2, Len(str)))
RECURSIVE Marked(_)
\* the tokens of a text in which AND is written & and OR is written |
Marked(str) ==
  IF str = "" THEN <<>>
  ELSE IF SubSeq(str, 1, 1) \in Marks
  THEN <<SubSeq(str, 1, 1)>> \o Marked(SubSeq(str, 2, Len(str)))
  ELSE Bind(PrefixLength(str), LAMBDA n :
         <<SubSeq(str, 1, n)>> \o Marked(SubSeq(str, n + 1, Len(str))))
Tokens(text) == Marked(ReplaceAll(ReplaceAll(text, " AND ", "&"), " OR ", "|"))

RECURSIVE ReadOr(_, _, _)
RECURSIVE ReadAnd(_, _, _)
RECURSIVE ReadPrimary(_, _, _)
\* each reader returns the truth value read from position pos and the position after it
ReadPrimary(tokens, pos, trueOnes) ==
  IF tokens[pos] = "("
  THEN Bind(ReadOr(tokens, pos + 1, trueOnes), LAMBDA inner :
         [holds |-> inner.holds, pos |-> inner.pos + 1])
  ELSE [holds |-> tokens[pos] \in trueOnes, pos |-> pos + 1]
ReadAnd(tokens, pos, trueOnes) ==
  Bind(ReadPrimary(tokens, pos, trueOnes), LAMBDA l :
    IF l.pos <= Len(tokens) /\ tokens[l.pos] = "&"
    THEN Bind(ReadAnd(tokens, l.pos + 1, trueOnes), LAMBDA r :
           [holds |-> l.holds /\ r.holds, pos |-> r.pos])
    ELSE l)
ReadOr(tokens, pos, trueOnes) ==
  Bind(ReadAnd(tokens, pos, trueOnes), LAMBDA l :
    IF l.pos <= Len(tokens) /\ tokens[l.pos] = "|"
    THEN Bind(ReadOr(tokens, l.pos + 1, trueOnes), LAMBDA r :
           [holds |-> l.holds \/ r.holds, pos |-> r.pos])
    ELSE l)
TextHolds(text, trueOnes) == ReadOr(Tokens(text), 1, trueOnes).holds

\* the text of one raw comparison in SIMPLE mode
ComparisonText(node) == buildExpression(mapExpression(node), ParameterManager(SIMPLE)).text
RECURSIVE RawComparisons(_)
RawComparisons(node) ==
  IF node.type = "binary_expr" /\ node.operator \in {"AND", "OR"}
  THEN RawComparisons(node.left) \cup RawComparisons(node.right)
  ELSE {ComparisonText(node)}
RECURSIVE RawHolds(_, _)
\* the truth value of a raw tree: its shape says which operator combines what
RawHolds(node, trueOnes) ==
  IF node.type = "binary_expr" /\ node.operator = "AND"
  THEN RawHolds(node.left, trueOnes) /\ RawHolds(node.right, trueOnes)
  ELSE IF node.type = "binary_expr" /\ node.operator = "OR"
  THEN RawHolds(node.left, trueOnes) \/ RawHolds(node.right, trueOnes)
  ELSE ComparisonText(node) \in trueOnes

\* the statement mapped last is SELECT name, email FROM users WHERE <filter tree>
MappedFilterTree ==
  /\ ast # Undef /\ RawWhere \in FilterTrees /\ ast = ParsedAST([BaseSelect EXCEPT !.where = RawWhere])
\* the condition text after WHERE in the built text
BuiltWhereText ==
  SubSeq(result.query, Position(result.query, "WHERE ") + Len("WHERE "), Len(result.query))

\* C25: the WHERE text built in SIMPLE mode from a mapped raw AND/OR tree,
\* read with SQL precedence, is true under exactly the truth assignments to
\* its comparisons under which the raw tree is true.
C25_WhereEquivalent ==
  (MappedFilterTree /\ mode = SIMPLE /\ Built)
    => \A trueOnes \in SUBSET RawComparisons(RawWhere) :
         TextHolds(BuiltWhereText, trueOnes) = RawHolds(RawWhere, trueOnes)
\* a OR b AND c with the OR node flagged as parenthesized has been built
C25_Witness ==
  /\ MappedFilterTree /\ mode = SIMPLE /\ Built
  /\ RawWhere.operator = "AND" /\ RawOperator(RawWhere.left) = "OR"
  /\ RawParentheses(RawWhere.left) /\ ~RawParentheses(RawWhere)
(***************************************************************************)
(* The parse of a condition text, as the external parser hands it to the   *)
(* mapper: binary_expr nodes, AND above OR, chains grouped to the left, a  *)
(* node written in parentheses flagged.                                    *)
(***************************************************************************)
\* the raw comparison with the given text
ParseComparison(text) ==
  Atoms[CHOOSE i \in 1..Len(Atoms) : ComparisonText(Atoms[i]) = text]
RECURSIVE ParseOr(_, _)
RECURSIVE ParseOrRest(_, _, _)
RECURSIVE ParseAnd(_, _)
RECURSIVE ParseAndRest(_, _, _)
RECURSIVE ParsePrimary(_, _)
\* each parser returns the node read from position pos and the position after it
ParsePrimary(tokens, pos) ==
  IF tokens[pos] = "("
  THEN Bind(ParseOr(tokens, pos + 1), LAMBDA inner :
         [node |-> [inner.node EXCEPT !.parentheses = TRUE], pos |-> inner.pos + 1])
  ELSE [node |-> ParseComparison(tokens[pos]), pos |-> pos + 1]
ParseAndRest(tokens, pos, left) ==
  IF pos <= Len(tokens) /\ tokens[pos] = "&"
  THEN Bind(ParsePrimary(tokens, pos + 1), LAMBDA r :
         ParseAndRest(tokens, r.pos, RawBinary("AND", left, r.node, FALSE)))
  ELSE [node |-> left, pos |-> pos]
ParseAnd(tokens, pos) ==
  Bind(ParsePrimary(tokens, pos), LAMBDA l : ParseAndRest(tokens, l.pos, l.node))
ParseOrRest(tokens, pos, left) ==
  IF pos <= Len(tokens) /\ tokens[pos] = "|"
  THEN Bind(ParseAnd(tokens, pos + 1), LAMBDA r :
         ParseOrRest(tokens, r.pos, RawBinary("OR", left, r.node, FALSE)))
  ELSE [node |-> left, pos |-> pos]
ParseOr(tokens, pos) ==
  Bind(ParseAnd(tokens, pos), LAMBDA l : ParseOrRest(tokens, l.pos, l.node))
ParseCondition(text) == ParseOr(Tokens(text), 1).node

\* the text without its parentheses
Unparenthesized(text) == ReplaceAll(ReplaceAll(text, "(", ""), ")", "")
WhereTextOf(text) == SubSeq(text, Position(text, "WHERE ") + Len("WHERE "), Len(text))
\* the text built from the mapped parse of the condition text built last
RebuiltText ==
  build(map(ParsedAST([BaseSelect EXCEPT !.where = ParseCondition(BuiltWhereText)])),
        schema, mode)

\* C26: parsing the WHERE text built from a mapped raw tree, mapping the parse
\* and building again gives a text with the same clauses and the same
\* comparisons joined by the same operators in the same order, that is true
\* under the same truth assignments: the two texts differ at most in
\* parentheses that do not change the grouping.
C26_RoundTripStable ==
  (MappedFilterTree /\ mode = SIMPLE /\ Built)
    => Bind(RebuiltText, LAMBDA again :
         /\ again.ok
         /\ Unparenthesized(again.query) = Unparenthesized(result.query)
         /\ \A trueOnes \in SUBSET RawComparisons(RawWhere) :
              TextHolds(WhereTextOf(again.query), trueOnes)
                = TextHolds(BuiltWhereText, trueOnes))
\* a built text with a parenthesized OR group under an AND has been parsed,
\* mapped and built again
C26_Witness ==
  /\ MappedFilterTree /\ mode = SIMPLE /\ Built
  /\ Contains(BuiltWhereText, " AND (") /\ Contains(BuiltWhereText, " OR ")
  /\ RebuiltText.ok
\* C28: a build call on a builder whose last call was a build of the same
\* query in the same mode returns the same text and parameters; in NAMED mode
\* the parameter names of every build start at param1 and, for a query whose
\* conditions compare columns with literals, the parameters of a build are
\* the literals of the query built and nothing else.
C28_BuildRepeatable ==
  [][(result'.kind = "build" /\ Build) =>
       /\ result.kind = "build" => result' = result
       /\ (result'.ok /\ mode = NAMED)
            => result'.parameters.names
                 = [i \in 1..Len(result'.parameters.names) |-> ParamName(i)]
       /\ (result'.ok /\ mode # SIMPLE /\ IsLiteralQuery(query))
            => result'.parameters.values = QueryLiterals(query)
       /\ (result'.ok /\ mode = SIMPLE) => result'.parameters = Undef]_vars
\* a query with two literals has been built in NAMED mode
C28_Witness ==
  /\ Built /\ mode = NAMED /\ IsQuery(query) /\ IsLiteralQuery(query)
  /\ Len(QueryLiterals(query)) = 2
  /\ result.parameters.names = <<ParamName(1), ParamName(2)>>
RECURSIVE LastSegment(_)
\* the part of the name after its last dot
LastSegment(name) ==
  IF Contains(name, ".")
  THEN LastSegment(SubSeq(name, Position(name, ".") + 1, Len(name)))
  ELSE name
\* the name a table gets in the dataset
InDataset(name, dataset) == dataset \o "." \o LastSegment(name)

RECURSIVE Qualified(_, _)
\* the query, filter, expression or list with every table name replaced by
\* its name in the dataset: the primary FROM, the join targets, and the tables
\* of the queries of CTEs, subqueries, union arms and scalar subqueries; an
\* absent list or filter stays absent and nothing else is touched
Qualified(v, dataset) ==
  IF IsArray(v) THEN Arr([i \in 1..Len(v.items) |-> Qualified(v.items[i], dataset)])
  ELSE IF ~IsNode(v) THEN v
  ELSE IF v.type = "table" THEN [v EXCEPT !.name = InDataset(v.name, dataset)]
  ELSE IF v.type \in {"subquery", "with", "union"}
  THEN [v EXCEPT !.query = Qualified(v.query, dataset)]
  ELSE IF v.type = "join"
  THEN [v EXCEPT !.table = Qualified(v.table, dataset), !.on = Qualified(v.on, dataset)]
  ELSE IF v.type = "select" THEN [v EXCEPT !.expression = Qualified(v.expression, dataset)]
  ELSE IF v.type = "filter"
  THEN [v EXCEPT !.conditions =
                   [i \in 1..Len(v.conditions) |-> Qualified(v.conditions[i], dataset)]]
  ELSE IF v.type = "expression"
  THEN [v EXCEPT !.left = Qualified(v.left, dataset), !.right = Qualified(v.right, dataset)]
  ELSE IF v.type = "query"
  THEN [v EXCEPT !.from = IF IsString(v.from) THEN S(InDataset(v.from.s, dataset))
                          ELSE Qualified(v.from, dataset),
                 !.selects = [i \in 1..Len(v.selects) |-> Qualified(v.selects[i], dataset)],
                 !.joins = Qualified(v.joins, dataset),
                 !.where = Qualified(v.where, dataset),
                 !.having = Qualified(v.having, dataset),
                 !.qualify = Qualified(v.qualify, dataset),
                 !.with = Qualified(v.with, dataset),
                 !.unions = Qualified(v.unions, dataset)]
  ELSE v

\* C29: updateTableNameWithQualifyingDataset(q, d) returns q with every table
\* name replaced by d.<last dot-segment of the name> and every other field as
\* it was, and applying it to the result with the same d returns the result.
C29_TablesQualified ==
  [][\A dataset \in Datasets :
       QualifyDataset(dataset)
         => /\ query' = Qualified(query, dataset)
            /\ updateTableNameWithQualifyingDataset(query', dataset) = query']_vars
\* a qualified query whose FROM table, join target, scalar subquery and union
\* arm all carry the dataset
C29_Witness ==
  /\ IsQuery(query) /\ NodeType(query.from) = "table" /\ query.from.name = "proj.ds.users"
  /\ IsArray(query.joins) /\ Len(query.joins.items) = 1
  /\ NodeType(query.joins.items[1].table) = "table"
  /\ query.joins.items[1].table.name = "proj.ds.orders"
  /\ FilterPresent(query.where) /\ NodeType(query.where.conditions[1]) = "expression"
  /\ NodeType(query.where.conditions[1].right) = "query"
  /\ query.where.conditions[1].right.from = S("proj.ds.orders")
  /\ IsArray(query.unions) /\ Len(query.unions.items) = 1
  /\ query.unions.items[1].query.from = S("proj.ds.logins")
\* the query without its union arms and its QUALIFY filter
WithoutUnionsAndQualify(q) == [q EXCEPT !.unions = Undef, !.qualify = Undef]

\* C30: the outcome of a build is the outcome of building the same query
\* without its union arms and QUALIFY filter (same text and parameters, or the
\* same error), and a mapped query has an empty unions list and no qualify.
C30_UnionsQualifyIgnored ==
  /\ (result.kind = "build" /\ IsQuery(query))
       => result = [kind |-> "build"] @@ build(WithoutUnionsAndQualify(query), schema, mode)
  /\ (ast # Undef /\ IsQuery(query))
       => query.unions = Arr(<<>>) /\ query.qualify = Undef
\* a query with a union arm and a QUALIFY filter has been built
C30_Witness ==
  /\ Built /\ IsQuery(query)
  /\ IsArray(query.unions) /\ Len(query.unions.items) = 1
  /\ FilterPresent(query.qualify)
  /\ ~Contains(result.query, "UNION") /\ ~Contains(result.query, "rn = ")
====
